---- MODULE Spec2Model ----
(***************************************************************************)
(* Calendar checklist synchronisation (app/calendar/sync.py and the routes *)
(* that edit the local store).  The store is an SQLite database reached    *)
(* through an ORM session; a sync cycle works in one session and commits   *)
(* once at its end.  Time is counted in hours.                             *)
(***************************************************************************)
EXTENDS Integers, Sequences, FiniteSets, TLC

\* ------------------------------------------------------------------ bounds
MaxSyncs   == 1   \* top-level sync_calendar invocations in a run
MaxRecords == 2   \* remote records delivered by the gateway in a run
MaxDepth   == 2   \* nested re-entries of sync_calendar that are explored
MaxPageLen == 1   \* records on one page
MaxUserOps == 2   \* user edits (add / toggle / archive / confirm) in a run

\* ------------------------------------------------------- program constants
WindowBackHours  == 2     \* timedelta(hours=2)
WindowAheadHours == 720   \* timedelta(days=30)
DayHours         == 24    \* timedelta(days=1)
StartClock       == 8     \* the hour at which the process starts

None == "None"

\* ------------------------------------------------------------------ codec
\* A description is a text; the model keeps it as its lines.  Each line is
\* classified the way the regular expressions of parser.py classify it:
\*   hdr   a recognised section header ("Items:", "Checklist:", ...)
\*   cap   another "Capitalised:" header line
\*   dash  "- text" / "* text"      box  "[ ] text" / "[x] text"
\*   num   "1. text" / "1) text"    text anything else
\*   blank an empty line
Line(k, t)    == [k |-> k, t |-> t, n |-> ""]
NumLine(n, t) == [k |-> "num", t |-> t, n |-> n]

NoDescription == [isNone |-> TRUE, lines |-> <<>>]
Text(ls)      == [isNone |-> FALSE, lines |-> ls]

\* matches of section_pattern: a header needs a newline after it, so a header
\* on the last line is no match
SectionStarts(ls) == {i \in 1..Len(ls) : ls[i].k = "hdr" /\ i < Len(ls)}

\* end (exclusive) of the section that starts after header line i
SectionEnd(ls, i) ==
  LET later == {j \in SectionStarts(ls) : j > i}
      \* the search for "\n[A-Z][a-z]+:" starts inside the first line of the
      \* section, so that line is never taken as the next header
      caps  == {j \in (i + 2)..Len(ls) : ls[j].k \in {"cap", "hdr"}}
  IN  IF later # {} THEN CHOOSE j \in later : \A k \in later : j <= k
      ELSE IF caps # {} THEN CHOOSE j \in caps : \A k \in caps : j <= k
      ELSE Len(ls) + 1

\* the text the bullet regex yields for one line: the first group that is
\* not None, which for a numbered line is the number
ItemText(l) ==
  CASE l.k = "dash" -> l.t
    [] l.k = "box"  -> l.t
    [] l.k = "num"  -> l.n
    [] OTHER        -> ""

RECURSIVE SectionItems(_, _, _)
SectionItems(ls, i, stop) ==
  IF i >= stop THEN <<>>
  ELSE (IF ItemText(ls[i]) # "" THEN <<ItemText(ls[i])>> ELSE <<>>)
         \o SectionItems(ls, i + 1, stop)

RECURSIVE ParseFrom(_, _)
ParseFrom(ls, from) ==
  LET starts == {i \in SectionStarts(ls) : i >= from}
  IN  IF starts = {} THEN <<>>
      ELSE LET i == CHOOSE j \in starts : \A k \in starts : j <= k
           IN  SectionItems(ls, i + 1, SectionEnd(ls, i)) \o ParseFrom(ls, i + 1)

parse_items_from_description(description) ==
  IF description.isNone \/ description.lines = <<>> THEN <<>>
  ELSE ParseFrom(description.lines, 1)

SeqToSet(q) == {q[i] : i \in 1..Len(q)}

\* "Items:\s*\n": the header the substitution of format_items_to_description
\* looks for, which like section_pattern needs a newline after it
ItemsHeader(ls, i) == ls[i].k = "hdr" /\ ls[i].t = "Items" /\ i < Len(ls)

\* the first line from i on that is not of kind k
RECURSIVE SkipKind(_, _, _)
SkipKind(ls, i, k) ==
  IF i <= Len(ls) /\ ls[i].k = k THEN SkipKind(ls, i + 1, k) ELSE i

\* re.sub: every "Items:" header goes, with the empty lines after it and
\* the "- text" lines that follow those
RECURSIVE RemoveItemsSections(_, _)
RemoveItemsSections(ls, i) ==
  IF i > Len(ls) THEN <<>>
  ELSE IF ItemsHeader(ls, i)
       THEN RemoveItemsSections(ls, SkipKind(ls, SkipKind(ls, i + 1, "blank"), "dash"))
       ELSE <<ls[i]>> \o RemoveItemsSections(ls, i + 1)

\* str.strip(), on lines: the empty lines at both ends go
RECURSIVE Strip(_)
Strip(ls) ==
  IF ls = <<>> THEN ls
  ELSE IF ls[1].k = "blank" THEN Strip(Tail(ls))
  ELSE IF ls[Len(ls)].k = "blank" THEN Strip(SubSeq(ls, 1, Len(ls) - 1))
  ELSE ls

format_items_to_description(items, existing_description) ==
  LET cleaned == Strip(RemoveItemsSections(existing_description.lines, 1))
      items_section ==
        <<Line("hdr", "Items")>> \o [i \in 1..Len(items) |-> Line("dash", items[i])]
  IN  IF items = <<>> THEN Text(cleaned)
      ELSE IF cleaned # <<>>
           THEN Text(cleaned \o <<Line("blank", "")>> \o items_section)
           ELSE Text(items_section)

\* --------------------------------------------------------------- datetimes
\* A datetime is a wall-clock hour, with or without a UTC offset.
Aware(w, off) == [w |-> w, aware |-> TRUE, off |-> off]
Naive(w)      == [w |-> w, aware |-> FALSE, off |-> 0]

\* the "start" / "end" dict of a remote record
DateTime(w, off) == [key |-> "dateTime", w |-> w, off |-> off]
DateOnly(day)    == [key |-> "date", w |-> day * DayHours, off |-> 0]
Malformed        == [key |-> "none", w |-> 0, off |-> 0]

\* _parse_datetime: a value with a "T" is parsed with its offset ("Z" is
\* +00:00); a date-only value becomes a naive midnight
_parse_datetime(dt_dict) ==
  IF dt_dict.key = "dateTime" THEN Aware(dt_dict.w, dt_dict.off)
  ELSE Naive(dt_dict.w)

\* datetime.__ne__: two aware values compare as instants, two naive values
\* as wall clocks, and a naive value never equals an aware one
DatetimeNe(a, b) ==
  IF a.aware # b.aware THEN TRUE
  ELSE IF a.aware THEN (a.w - a.off) # (b.w - b.off)
  ELSE a.w # b.w

\* what the DateTime column of the SQLite store gives back for a value
\* written to it: the wall clock, without the offset
Stored(t) == Naive(t.w)

\* ------------------------------------------------------------------ store
\* Rows of the four tables.  ids are the primary keys (uuid4 in the code).
EmptyStore == [events |-> {}, items |-> {}, attendees |-> {}, confirmations |-> {}]

Max(S) == IF S = {} THEN 0 ELSE CHOOSE x \in S : \A y \in S : y <= x

\* The session of one request or job: the rows as its transaction sees
\* them, the relationship collections its objects have already loaded
\* (a loaded collection is not refreshed before the session ends), whether
\* a statement that the next flush sends will be refused by the store, and
\* the keys it has handed out.
FreshSession(store) ==
  [events |-> store.events, items |-> store.items,
   attendees |-> store.attendees, confirmations |-> store.confirmations,
   items_loaded |-> << >>, attendees_loaded |-> << >>,
   flush_fails |-> FALSE,
   next_id |-> 1 + Max({x.id : x \in store.events \cup store.items
                                  \cup store.attendees \cup store.confirmations})]

NoSession == FreshSession(EmptyStore)

\* session.commit(): the rows become the committed store; datetimes are
\* written to DateTime columns
Committed(s) ==
  [events |-> {[e EXCEPT !.start_time = Stored(@), !.end_time = Stored(@),
                         !.last_synced = Stored(@)] : e \in s.events},
   items |-> s.items, attendees |-> s.attendees,
   confirmations |-> s.confirmations]

\* the keys of a set of rows
Ids(es) == {e.id : e \in es}

Rows(s) == [events |-> s.events, items |-> s.items, attendees |-> s.attendees,
            confirmations |-> s.confirmations]

\* event.items: loaded from the rows on first access, then kept
LoadItems(s, eid) ==
  IF eid \in DOMAIN s.items_loaded THEN s
  ELSE [s EXCEPT !.items_loaded =
          @ @@ (eid :> {[id |-> i.id, name |-> i.name] :
                          i \in {j \in s.items : j.event_id = eid}})]

\* event.attendees, likewise
LoadAttendees(s, eid) ==
  IF eid \in DOMAIN s.attendees_loaded THEN s
  ELSE [s EXCEPT !.attendees_loaded =
          @ @@ (eid :> {a.id : a \in {b \in s.attendees : b.event_id = eid}})]

\* The deletion block shared by _cleanup_orphaned_instance,
\* _cleanup_orphaned_events and _handle_deleted_event: delete the objects of
\* event.items, event.attendees and event.confirmations, then the event.
\* Rows of the event that are in none of these collections stay behind and
\* the store (PRAGMA foreign_keys=ON) refuses the deletion at the next flush.
\* a deletion that takes every confirmation with it
DeleteEventAndAllConfirmations(s0, e) ==
  LET s1   == LoadAttendees(LoadItems(s0, e.id), e.id)
      ids  == {c.id : c \in s1.items_loaded[e.id]}
      its  == {i \in s1.items : ~(i.event_id = e.id /\ i.id \in ids)}
      ats  == {a \in s1.attendees :
                 ~(a.event_id = e.id /\ a.id \in s1.attendees_loaded[e.id])}
      left == {i \in its : i.event_id = e.id} \cup {a \in ats : a.event_id = e.id}
  IN  [s1 EXCEPT !.events = @ \ {e},
                 !.items = its,
                 !.attendees = ats,
                 !.confirmations = {},
                 !.flush_fails = @ \/ left # {}]

DeleteEvent(s0, e) ==
  LET s1   == LoadAttendees(LoadItems(s0, e.id), e.id)
      ids  == {c.id : c \in s1.items_loaded[e.id]}
      its  == {i \in s1.items : ~(i.event_id = e.id /\ i.id \in ids)}
      ats  == {a \in s1.attendees :
                 ~(a.event_id = e.id /\ a.id \in s1.attendees_loaded[e.id])}
      left == {i \in its : i.event_id = e.id} \cup {a \in ats : a.event_id = e.id}
  IN  [s1 EXCEPT !.events = @ \ {e},
                 !.items = its,
                 !.attendees = ats,
                 !.confirmations = {c \in @ : c.event_id # e.id},
                 !.flush_fails = @ \/ left # {}]

RECURSIVE DeleteEvents(_, _)
DeleteEvents(s, es) ==
  IF es = {} THEN s
  ELSE LET e == CHOOSE x \in es : \A y \in es : x.id <= y.id
       IN  DeleteEvents(DeleteEvent(s, e), es \ {e})

DayStart(t) == (t.w \div DayHours) * DayHours

\* _cleanup_orphaned_instance: the query compares the stored wall clocks
_cleanup_orphaned_instance(s, recurring_event_id, new_start_time, new_google_id) ==
  LET day_start == DayStart(new_start_time)
      day_end   == day_start + DayHours
      orphans   == {e \in s.events :
                      /\ e.recurring_event_id = recurring_event_id
                      /\ e.google_event_id # new_google_id
                      /\ e.start_time.w >= day_start
                      /\ e.start_time.w < day_end
                      /\ e.is_archived = FALSE}
  IN  DeleteEvents(s, orphans)

RECURSIVE AddItems(_, _, _)
AddItems(s, eid, names) ==
  IF names = {} THEN s
  ELSE LET name == CHOOSE x \in names : TRUE
           item == [id |-> s.next_id, event_id |-> eid, name |-> name,
                    is_checked |-> FALSE, source |-> "parsed"]
       IN  AddItems([s EXCEPT !.items = @ \cup {item}, !.next_id = @ + 1],
                    eid, names \ {name})

\* {item.name: item for item in event.items}: one item per name, the one
\* that comes last in the collection
ItemsByName(loaded) ==
  {c \in loaded : \A d \in loaded : d.name = c.name => d.id <= c.id}

\* _sync_items without the test of is_archived
SyncItemsOfAnyEvent(s0, event, description) ==
  LET parsed_set     == SeqToSet(parse_items_from_description(description))
      s1             == LoadItems(s0, event.id)
      existing_items == ItemsByName(s1.items_loaded[event.id])
      names          == {c.name : c \in existing_items}
      s2             == AddItems(s1, event.id, parsed_set \ names)
      gone           == {c.id : c \in {d \in existing_items : d.name \notin parsed_set}}
  IN  [s2 EXCEPT !.items = {i \in @ : ~(i.event_id = event.id /\ i.id \in gone)}]

\* _sync_items replacing the items the way _sync_attendees replaces the
\* attendees
SyncItemsReplacingAll(s0, event, description) ==
  IF event.is_archived THEN s0
  ELSE
    LET parsed_set == SeqToSet(parse_items_from_description(description))
        s1         == LoadItems(s0, event.id)
        gone       == {c.id : c \in s1.items_loaded[event.id]}
        s2         == [s1 EXCEPT !.items =
                         {i \in @ : ~(i.event_id = event.id /\ i.id \in gone)}]
    IN  AddItems(s2, event.id, parsed_set)

_sync_items(s0, event, description) ==
  IF event.is_archived THEN s0
  ELSE
    LET parsed_set     == SeqToSet(parse_items_from_description(description))
        s1             == LoadItems(s0, event.id)
        existing_items == ItemsByName(s1.items_loaded[event.id])
        names          == {c.name : c \in existing_items}
        s2             == AddItems(s1, event.id, parsed_set \ names)
        gone           == {c.id : c \in {d \in existing_items : d.name \notin parsed_set}}
    IN  [s2 EXCEPT !.items = {i \in @ : ~(i.event_id = event.id /\ i.id \in gone)}]

RECURSIVE AddAttendees(_, _, _)
AddAttendees(s, eid, atts) ==
  IF atts = <<>> THEN s
  ELSE LET att == Head(atts)
           row == [id |-> s.next_id, event_id |-> eid, email |-> att.email,
                   display_name |-> att.displayName,
                   response_status |-> IF att.responseStatus = None
                                       THEN "needsAction" ELSE att.responseStatus]
       IN  AddAttendees([s EXCEPT !.attendees = @ \cup {row}, !.next_id = @ + 1],
                        eid, Tail(atts))

_sync_attendees(s0, event, atts) ==
  LET s1  == LoadAttendees(s0, event.id)
      old == s1.attendees_loaded[event.id]
      s2  == [s1 EXCEPT !.attendees =
                {a \in @ : ~(a.event_id = event.id /\ a.id \in old)}]
  IN  AddAttendees(s2, event.id, atts)

Summary(google_event) ==
  IF google_event.summary = None THEN "Untitled" ELSE google_event.summary

\* a reset that passes over the items the user added
ResetParsedItems(s0, eid) ==
  LET s1  == LoadItems(s0, eid)
      ids == {c.id : c \in s1.items_loaded[eid]}
  IN  [s1 EXCEPT !.items =
         {IF i.event_id = eid /\ i.id \in ids /\ i.source = "parsed"
          THEN [i EXCEPT !.is_checked = FALSE] ELSE i : i \in @}]

\* the checklist reset of _upsert_event: every object of existing.items
ResetChecklist(s0, eid) ==
  LET s1  == LoadItems(s0, eid)
      ids == {c.id : c \in s1.items_loaded[eid]}
  IN  [s1 EXCEPT !.items =
         {IF i.event_id = eid /\ i.id \in ids
          THEN [i EXCEPT !.is_checked = FALSE] ELSE i : i \in @}]

\* an update that takes the event out of the archive
UpdateFieldsUnarchiving(existing, google_event, start_time, end_time, now) ==
  [existing EXCEPT !.title = Summary(google_event),
                   !.description = google_event.description,
                   !.start_time = start_time,
                   !.end_time = end_time,
                   !.recurring_event_id = google_event.recurringEventId,
                   !.last_synced = Aware(now, 0),
                   !.is_archived = FALSE]

\* the update of the fields that the remote calendar owns
UpdateFields(existing, google_event, start_time, end_time, now) ==
  [existing EXCEPT !.title = Summary(google_event),
                   !.description = google_event.description,
                   !.start_time = start_time,
                   !.end_time = end_time,
                   !.recurring_event_id = google_event.recurringEventId,
                   !.last_synced = Aware(now, 0)]

\* whether the reset applies
ResetApplies(existing, start_time, end_time) ==
  /\ DatetimeNe(existing.start_time, start_time)
       \/ DatetimeNe(existing.end_time, end_time)
  /\ ~existing.is_archived

\* an upsert that adds an event without looking for an existing one
upsert_always_creates(s0, google_event, now) ==
  LET event == [id |-> s0.next_id,
                google_event_id |-> google_event.id,
                recurring_event_id |-> google_event.recurringEventId,
                title |-> Summary(google_event),
                description |-> google_event.description,
                start_time |-> _parse_datetime(google_event.start),
                end_time |-> _parse_datetime(google_event.end),
                last_synced |-> Aware(now, 0),
                is_archived |-> FALSE]
      s1 == [s0 EXCEPT !.events = @ \cup {event}, !.next_id = @ + 1]
  IN  [session |-> _sync_attendees(_sync_items(s1, event, google_event.description),
                                   event, google_event.attendees),
       created |-> TRUE]

\* _upsert_event: the session after it, and whether an event was created
_upsert_event(s0, google_event, now) ==
  LET google_id  == google_event.id
      found      == {e \in s0.events : e.google_event_id = google_id}
      start_time == _parse_datetime(google_event.start)
      end_time   == _parse_datetime(google_event.end)
      recurring_event_id == google_event.recurringEventId
  IN
  IF found # {} THEN
    LET existing == CHOOSE e \in found : TRUE
        updated  == UpdateFields(existing, google_event, start_time, end_time, now)
        s1 == [s0 EXCEPT !.events = (@ \ {existing}) \cup {updated}]
        s2 == IF ResetApplies(existing, start_time, end_time)
              THEN ResetChecklist(s1, existing.id) ELSE s1
        s3 == IF recurring_event_id # None
              THEN _cleanup_orphaned_instance(s2, recurring_event_id, start_time, google_id)
              ELSE s2
        s4 == _sync_items(s3, updated, google_event.description)
        s5 == _sync_attendees(s4, updated, google_event.attendees)
    IN  [session |-> s5, created |-> FALSE]
  ELSE
    LET s1 == IF recurring_event_id # None
              THEN _cleanup_orphaned_instance(s0, recurring_event_id, start_time, google_id)
              ELSE s0
        event == [id |-> s1.next_id,
                  google_event_id |-> google_id,
                  recurring_event_id |-> recurring_event_id,
                  title |-> Summary(google_event),
                  description |-> google_event.description,
                  start_time |-> start_time,
                  end_time |-> end_time,
                  last_synced |-> Aware(now, 0),
                  is_archived |-> FALSE]
        s2 == [s1 EXCEPT !.events = @ \cup {event}, !.next_id = @ + 1]
        s3 == _sync_items(s2, event, google_event.description)
        s4 == _sync_attendees(s3, event, google_event.attendees)
    IN  [session |-> s4, created |-> TRUE]

\* _handle_deleted_event without the filter on is_archived
HandleDeletedAny(s0, google_id) ==
  LET found == {e \in s0.events : e.google_event_id = google_id}
  IN  IF found # {}
      THEN [session |-> DeleteEvent(s0, CHOOSE e \in found : TRUE), deleted |-> TRUE]
      ELSE [session |-> s0, deleted |-> FALSE]

\* _handle_deleted_event
_handle_deleted_event(s0, google_id) ==
  LET found == {e \in s0.events : e.google_event_id = google_id /\ ~e.is_archived}
  IN  IF found # {}
      THEN [session |-> DeleteEvent(s0, CHOOSE e \in found : TRUE), deleted |-> TRUE]
      ELSE [session |-> s0, deleted |-> FALSE]

\* the sweep with the window laid on the start of the events
SweepByStart(s0, seen_google_ids, now) ==
  LET time_min == now - WindowBackHours
      time_max == now + WindowAheadHours
      local_events == {e \in s0.events :
                         /\ e.is_archived = FALSE
                         /\ e.start_time.w >= time_min
                         /\ e.start_time.w < time_max}
      orphaned == {e \in local_events : e.google_event_id \notin seen_google_ids}
  IN  [session |-> DeleteEvents(s0, orphaned), count |-> Cardinality(orphaned)]

\* _cleanup_orphaned_events: the window is compared with the stored wall
\* clocks; now is the UTC clock
_cleanup_orphaned_events(s0, seen_google_ids, now) ==
  LET time_min == now - WindowBackHours
      time_max == now + WindowAheadHours
      local_events == {e \in s0.events :
                         /\ e.is_archived = FALSE
                         /\ e.end_time.w >= time_min
                         /\ e.start_time.w < time_max}
      orphaned == {e \in local_events : e.google_event_id \notin seen_google_ids}
  IN  [session |-> DeleteEvents(s0, orphaned), count |-> Cardinality(orphaned)]

\* has_unpushed_changes, on the rows of a store
has_unpushed_changes(store, event) ==
  {i.name : i \in {j \in store.items : j.event_id = event.id}}
    # SeqToSet(parse_items_from_description(event.description))

\* event.items as a list, in the order of the keys
RECURSIVE InKeyOrder(_)
InKeyOrder(rows) ==
  IF rows = {} THEN <<>>
  ELSE LET first == CHOOSE r \in rows : \A q \in rows : r.id <= q.id
       IN  <<first>> \o InKeyOrder(rows \ {first})

\* what a push may meet for one event: get_calendar_service raises
\* ValueError (no credentials, or they could not be refreshed), events().get
\* or events().update raises HttpError, or the remote record is returned and
\* the new body accepted
HttpErrorAnswer  == [ok |-> FALSE, error |-> "HttpError", description |-> NoDescription]
ValueErrorAnswer == [ok |-> FALSE, error |-> "ValueError", description |-> NoDescription]
Fetched(description) == [ok |-> TRUE, error |-> None, description |-> description]

\* push_items_to_calendar: the new description, or None; "ValueError" stands
\* for the exception that leaves the function
push_items_to_calendar(store, event, answer) ==
  IF answer.error = "ValueError" THEN "ValueError"
  ELSE IF ~answer.ok THEN None
  ELSE LET items == InKeyOrder({i \in store.items : i.event_id = event.id})
       IN  format_items_to_description([k \in 1..Len(items) |-> items[k].name],
                                       answer.description)

\* the events push_recurring_instances looks at: the source event, and for
\* a source event of a series the other instances that are not archived
PushCandidates(store, source_event) ==
  {source_event} \cup
  IF source_event.recurring_event_id = None THEN {}
  ELSE {e \in store.events :
          /\ e.recurring_event_id = source_event.recurring_event_id
          /\ e.id # source_event.id
          /\ ~e.is_archived}

\* a push that does not ask whether there is something to push
PushEveryCandidate(store, source_event) == PushCandidates(store, source_event)

\* the candidates that have something to push
PushTried(store, source_event) ==
  {e \in PushCandidates(store, source_event) : has_unpushed_changes(store, e)}

\* push_recurring_instances; answers gives the remote's answer per event.
\* The source event comes first, the instances follow in key order; an
\* exception ends the call before the commit, after the updates already sent.
push_recurring_instances(store, source_event, answers) ==
  LET order   == <<source_event>>
                   \o InKeyOrder(PushCandidates(store, source_event) \ {source_event})
      raising == {k \in 1..Len(order) :
                    /\ order[k] \in PushTried(store, source_event)
                    /\ answers[order[k].id].error = "ValueError"}
      stop    == IF raising = {} THEN Len(order) + 1
                 ELSE CHOOSE k \in raising : \A j \in raising : k <= j
      reached == {order[k] : k \in 1..(stop - 1)}
      tried   == reached \cap PushTried(store, source_event)
      pushed  == {e \in tried : answers[e.id].ok}
      new_desc(e) == push_items_to_calendar(store, e, answers[e.id])
  IN  [store |-> IF raising # {} THEN store
                 ELSE [store EXCEPT !.events =
                         {IF e \in pushed THEN [e EXCEPT !.description = new_desc(e)]
                          ELSE e : e \in @}],
       updates |-> {[event_id |-> e.id, eventId |-> e.google_event_id,
                     description |-> new_desc(e)] : e \in pushed},
       raised |-> raising # {},
       stats |-> [pushed  |-> Cardinality(pushed),
                  skipped |-> Cardinality(reached \ tried),
                  failed  |-> Cardinality(tried \ pushed)]]

\* str.lower(), on the names of the model
Lower(name) ==
  CASE name = "A" -> "a"
    [] name = "B" -> "b"
    [] OTHER      -> name

\* push_items_to_master_event: as push_items_to_calendar, on the master
\* record of the series
push_items_to_master_event(item_names, answer) ==
  IF answer.error = "ValueError" THEN "ValueError"
  ELSE IF ~answer.ok THEN None
  ELSE format_items_to_description(item_names, answer.description)

\* [item.name for item in source_event.items]
NamesOf(store, event) ==
  LET items == InKeyOrder({i \in store.items : i.event_id = event.id})
  IN  [k \in 1..Len(items) |-> items[k].name]

\* a fan-out that does not leave out the confirmed instances
FanOutConfirmedToo(store, source_event, clock) ==
  {e \in store.events :
     /\ e.recurring_event_id = source_event.recurring_event_id
     /\ e.start_time.w > clock
     /\ e.id # source_event.id
     /\ ~e.is_archived}

\* the instances a fan-out works on: the query on series, start, id and
\* archive flag, then the filter on confirmations
FanOutInstances(store, source_event, clock) ==
  {e \in store.events :
     /\ e.recurring_event_id = source_event.recurring_event_id
     /\ e.start_time.w > clock
     /\ e.id # source_event.id
     /\ ~e.is_archived
     /\ ~\E c \in store.confirmations : c.event_id = e.id}

\* the body sent to the master record, if the push went through
MasterUpdate(store, source_event, answer) ==
  IF answer.ok
  THEN {[event_id |-> 0, eventId |-> source_event.recurring_event_id,
         description |->
           push_items_to_master_event(NamesOf(store, source_event), answer)]}
  ELSE {}

NoFanOut(store) ==
  [store |-> store, raised |-> FALSE, updates |-> {},
   stats |-> [changed |-> 0, skipped |-> 0, master_pushed |-> FALSE]]

\* a fan-out that looks for the name as it is written
PushItemCaseSensitive(store, source_event, item_name, answer, clock) ==
  IF source_event.recurring_event_id = None THEN NoFanOut(store)
  ELSE IF answer.error = "ValueError" THEN [NoFanOut(store) EXCEPT !.raised = TRUE]
  ELSE
    LET instances == FanOutInstances(store, source_event, clock)
        existing_names(e) == {i.name : i \in {j \in store.items : j.event_id = e.id}}
        adding == InKeyOrder({e \in instances : item_name \notin existing_names(e)})
        key    == FreshSession(store).next_id
        new    == {[id |-> key + k - 1, event_id |-> adding[k].id, name |-> item_name,
                    is_checked |-> FALSE, source |-> "parsed"] : k \in 1..Len(adding)}
    IN  [store |-> [store EXCEPT !.items = @ \cup new],
         raised |-> FALSE,
         updates |-> MasterUpdate(store, source_event, answer),
         stats |-> [changed |-> Len(adding),
                    skipped |-> Cardinality(instances) - Len(adding),
                    master_pushed |-> answer.ok]]

\* push_item_to_recurring_instances; 'changed' is the count 'added'
push_item_to_recurring_instances(store, source_event, item_name, answer, clock) ==
  IF source_event.recurring_event_id = None THEN NoFanOut(store)
  ELSE IF answer.error = "ValueError" THEN [NoFanOut(store) EXCEPT !.raised = TRUE]
  ELSE
    LET instances == FanOutInstances(store, source_event, clock)
        existing_names(e) == {Lower(i.name) : i \in {j \in store.items : j.event_id = e.id}}
        adding == InKeyOrder({e \in instances : Lower(item_name) \notin existing_names(e)})
        key    == FreshSession(store).next_id
        new    == {[id |-> key + k - 1, event_id |-> adding[k].id, name |-> item_name,
                    is_checked |-> FALSE, source |-> "parsed"] : k \in 1..Len(adding)}
    IN  [store |-> [store EXCEPT !.items = @ \cup new],
         raised |-> FALSE,
         updates |-> MasterUpdate(store, source_event, answer),
         stats |-> [changed |-> Len(adding),
                    skipped |-> Cardinality(instances) - Len(adding),
                    master_pushed |-> answer.ok]]

\* the first item of the event, in the order of event.items, whose name is
\* item_name without regard to case
MatchingItems(store, e, item_name) ==
  LET matches == {i \in store.items :
                    i.event_id = e.id /\ Lower(i.name) = Lower(item_name)}
  IN  IF matches = {} THEN {}
      ELSE {CHOOSE i \in matches : \A j \in matches : i.id <= j.id}

\* a fan-out that deletes the items whose name is written the same way
DeleteItemCaseSensitive(store, source_event, item_name, answer, clock) ==
  IF source_event.recurring_event_id = None THEN NoFanOut(store)
  ELSE IF answer.error = "ValueError" THEN [NoFanOut(store) EXCEPT !.raised = TRUE]
  ELSE
    LET instances == FanOutInstances(store, source_event, clock)
        first(e)  == {i \in MatchingItems(store, e, item_name) : i.name = item_name}
        matching  == UNION {first(e) : e \in instances}
    IN  [store |-> [store EXCEPT !.items = @ \ matching],
         raised |-> FALSE,
         updates |-> MasterUpdate(store, source_event, answer),
         stats |-> [changed |-> Cardinality(matching),
                    skipped |-> Cardinality(instances) - Cardinality(matching),
                    master_pushed |-> answer.ok]]

\* delete_item_from_recurring_instances; 'changed' is the count 'deleted'
delete_item_from_recurring_instances(store, source_event, item_name, answer, clock) ==
  IF source_event.recurring_event_id = None THEN NoFanOut(store)
  ELSE IF answer.error = "ValueError" THEN [NoFanOut(store) EXCEPT !.raised = TRUE]
  ELSE
    LET instances == FanOutInstances(store, source_event, clock)
        matching  == UNION {MatchingItems(store, e, item_name) : e \in instances}
    IN  [store |-> [store EXCEPT !.items = @ \ matching],
         raised |-> FALSE,
         updates |-> MasterUpdate(store, source_event, answer),
         stats |-> [changed |-> Cardinality(matching),
                    skipped |-> Cardinality(instances) - Cardinality(matching),
                    master_pushed |-> answer.ok]]

\* ------------------------------------------------- the remote calendar
\* What the gateway may answer.  A remote record carries an id, a status and,
\* unless it is cancelled, the fields _upsert_event reads.
ItemNames == {"A", "B"}

AttendeeX == [email |-> "x@example.org", displayName |-> None, responseStatus |-> None]

DescriptionA  == Text(<<Line("hdr", "Items"), Line("dash", "A")>>)
DescriptionAB == Text(<<Line("text", "Room 4"), Line("hdr", "Checklist"),
                        Line("box", "A"), Line("dash", "B"),
                        Line("cap", "Notes"), Line("dash", "Z")>>)

\* summary, description and attendees of a record
Bare   == [summary |-> None, description |-> NoDescription, attendees |-> <<>>]
ListsA == [summary |-> "Standup", description |-> DescriptionA,
           attendees |-> <<AttendeeX>>]
ListsAB == [summary |-> "Standup", description |-> DescriptionAB,
            attendees |-> <<AttendeeX>>]

\* start and end of a record: timed pairs on the first day that differ in
\* the start or in the end only, an all-day pair, and a pair on the day
\* before, which ends before the window of a full sync begins
Morning     == [start |-> DateTime(10, 0), end |-> DateTime(11, 0)]
LongMorning == [start |-> DateTime(10, 0), end |-> DateTime(12, 0)]
Early       == [start |-> DateTime(9, 0),  end |-> DateTime(11, 0)]
AllDay      == [start |-> DateOnly(0),     end |-> DateOnly(1)]
Yesterday   == [start |-> DateTime(-14, 0), end |-> DateTime(-13, 0)]
Unparsable  == [start |-> Malformed,       end |-> Malformed]

Record(id, series, c, t) ==
  [id |-> id, status |-> "confirmed", recurringEventId |-> series,
   summary |-> c.summary, description |-> c.description,
   attendees |-> c.attendees, start |-> t.start, end |-> t.end]

Cancelled(id) ==
  [id |-> id, status |-> "cancelled", recurringEventId |-> None,
   summary |-> None, description |-> NoDescription,
   attendees |-> <<>>, start |-> Malformed, end |-> Malformed]

Records ==
  { Record("g1", None, ListsA, Morning),
    Record("g1", None, ListsAB, Morning),
    Record("g1", None, ListsA, LongMorning),
    Record("g1", None, Bare, Morning),
    Record("g1", None, ListsA, AllDay),
    Record("g1", "s1", ListsA, Morning),
    Record("g2", "s1", Bare, Early),
    Record("g2", "s1", Bare, Yesterday),
    Record("g2", None, Bare, Unparsable),
    Cancelled("g1") }

SeqsUpTo(S, n) == UNION {[1..k -> S] : k \in 0..n}

\* The token the gateway issues in the n-th invocation.
TokenNames == <<"tok1", "tok2", "tok3", "tok4">>

\* a token on a page that is not the last
EarlyToken == "early"

\* A page that is not the last carries nextPageToken (and at least one
\* record); any page may carry nextSyncToken.
Pages(n) ==
  {[items |-> q, nextPageToken |-> TRUE, nextSyncToken |-> tok] :
     q \in SeqsUpTo(Records, MaxPageLen) \ {<<>>}, tok \in {None, EarlyToken}}
  \cup
  {[items |-> q, nextPageToken |-> FALSE, nextSyncToken |-> tok] :
     q \in SeqsUpTo(Records, MaxPageLen),
     tok \in {None} \cup {TokenNames[k] : k \in {n} \cap DOMAIN TokenNames}}

NoResult == [items |-> <<>>, nextPageToken |-> FALSE, nextSyncToken |-> None]

\* ------------------------------------------------------------------ state
VARIABLES
  db,               \* the committed store
  session,          \* the session of the running sync_calendar
  tokens,           \* SyncState._tokens[calendar_id], or None
  last_sync,        \* SyncState._last_sync_time / _success / _error
  credentials,      \* has_valid_credentials()
  now,              \* the clock
  pc,               \* "idle", "list" (before the first list request), "paged"
  depth,            \* how many times sync_calendar has re-entered itself
  sync_token,       \* locals of the innermost sync_calendar frame
  is_full_sync,
  seen_google_ids,
  stats,
  events_result,
  request,          \* the parameters of the last list request that was answered
  result,           \* what the last sync_calendar returned or raised
  last,             \* the last record merged and the rows before it
  response,         \* the answer to the last request for an event or an item
  updates,          \* the bodies that request sent with events().update
  nsyncs, nrecords, nuserops

vars == <<db, session, tokens, last_sync, credentials, now, pc, depth, sync_token,
          is_full_sync, seen_google_ids, stats, events_result, request,
          result, last, response, updates, nsyncs, nrecords, nuserops>>

ZeroStats == [created |-> 0, updated |-> 0, deleted |-> 0]
NoRequest == [kind |-> "none"]
NoStep    == [op |-> "none"]
NoResponse == [handler |-> "none", status_code |-> 0]

\* The store is a file that survives the process, and a run may be looked at
\* from any point the program can be in.  The runs start on an empty store
\* with no token, or on the store that a first sync of one record has
\* committed, with or without the token that sync was given.
SeedRecords ==
  { Record("g1", None, ListsAB, Morning),
    Record("g1", None, ListsA, Morning),
    Record("g1", None, ListsAB, AllDay),
    Record("g1", "s1", Bare, Morning) }

SeedStore(google_event) ==
  Committed(_upsert_event(FreshSession(EmptyStore), google_event, StartClock).session)

Init ==
  /\ db \in {EmptyStore} \cup {SeedStore(g) : g \in SeedRecords}
  /\ session = NoSession
  /\ tokens \in IF db = EmptyStore THEN {None} ELSE {None, "tok0"}
  /\ last_sync = [time |-> 0, success |-> TRUE, error |-> None]
  /\ credentials \in BOOLEAN
  /\ now = StartClock
  /\ pc = "idle"
  /\ depth = 0
  /\ sync_token = None
  /\ is_full_sync = FALSE
  /\ seen_google_ids = {}
  /\ stats = ZeroStats
  /\ events_result = NoResult
  /\ request = NoRequest
  /\ result = [kind |-> "none"]
  /\ last = NoStep
  /\ response = NoResponse
  /\ updates = {}
  /\ nsyncs = 0 /\ nrecords = 0 /\ nuserops = 0

\* a frame that takes every attempt for an incremental one
EnterFrameIncremental(token) ==
  /\ sync_token' = token
  /\ is_full_sync' = FALSE
  /\ seen_google_ids' = {}
  /\ stats' = ZeroStats
  /\ events_result' = NoResult
  /\ request' = NoRequest

\* the first lines of sync_calendar after the credentials check: read the
\* token and set up the locals
EnterFrame(token) ==
  /\ sync_token' = token
  /\ is_full_sync' = (token = None)
  /\ seen_google_ids' = {}
  /\ stats' = ZeroStats
  /\ events_result' = NoResult
  /\ request' = NoRequest

\* the frame is gone
LeaveFrame ==
  /\ pc' = "idle"
  /\ depth' = 0
  /\ sync_token' = None
  /\ is_full_sync' = FALSE
  /\ seen_google_ids' = {}
  /\ stats' = ZeroStats
  /\ events_result' = NoResult
  /\ request' = NoRequest
  /\ session' = NoSession

\* a failure that keeps what the session held
RaiseCommitting(error) ==
  /\ last_sync' = [time |-> now, success |-> FALSE, error |-> error]
  /\ result' = [kind |-> "raised", error |-> error]
  /\ last' = [op |-> "raised", before |-> Rows(session)]
  /\ LeaveFrame
  /\ db' = Committed(session)
  /\ UNCHANGED <<credentials, now, nsyncs, nuserops, response, updates>>

\* a failure that is raised without being recorded
RaiseUnrecorded(error) ==
  /\ result' = [kind |-> "raised", error |-> error]
  /\ last' = [op |-> "raised", before |-> Rows(session)]
  /\ LeaveFrame
  /\ UNCHANGED <<db, last_sync, credentials, now, nsyncs, nuserops, response, updates>>

\* SyncState.record_sync_failure, then the exception leaves sync_calendar;
\* the caller (sync_job, trigger_sync) closes the session without a commit.
\* last keeps the rows the session held when the request was made.
Raise(error) ==
  /\ last_sync' = [time |-> now, success |-> FALSE, error |-> error]
  /\ result' = [kind |-> "raised", error |-> error]
  /\ last' = [op |-> "raised", before |-> Rows(session)]
  /\ LeaveFrame
  /\ UNCHANGED <<db, credentials, now, nsyncs, nuserops, response, updates>>

\* the missing credentials taken for a token that is no longer valid
SyncNoCredentialsClearing ==
  /\ pc = "idle" /\ ~credentials /\ nsyncs < MaxSyncs
  /\ now' = now + 1
  /\ nsyncs' = nsyncs + 1
  /\ tokens' = None
  /\ last_sync' = [time |-> now', success |-> FALSE, error |-> "No valid credentials"]
  /\ result' = [kind |-> "error", error |-> "No valid credentials",
                stats |-> ZeroStats]
  /\ UNCHANGED <<db, session, credentials, pc, depth, sync_token,
                 is_full_sync, seen_google_ids, stats, events_result, request,
                 last, nrecords, nuserops, response, updates>>

\* sync_calendar without credentials
SyncNoCredentials ==
  /\ pc = "idle" /\ ~credentials /\ nsyncs < MaxSyncs
  /\ now' = now + 1
  /\ nsyncs' = nsyncs + 1
  /\ last_sync' = [time |-> now', success |-> FALSE, error |-> "No valid credentials"]
  /\ result' = [kind |-> "error", error |-> "No valid credentials",
                stats |-> ZeroStats]
  /\ UNCHANGED <<db, session, tokens, credentials, pc, depth, sync_token,
                 is_full_sync, seen_google_ids, stats, events_result, request,
                 last, nrecords, nuserops, response, updates>>

\* trigger_sync without credentials: the failure is recorded and the
\* request is redirected; sync_calendar is not called
TriggerSyncNoCredentials ==
  /\ pc = "idle" /\ ~credentials /\ nsyncs < MaxSyncs
  /\ now' = now + 1
  /\ nsyncs' = nsyncs + 1
  /\ last_sync' = [time |-> now', success |-> FALSE, error |-> "No valid credentials"]
  /\ UNCHANGED <<db, session, tokens, credentials, pc, depth, sync_token,
                 is_full_sync, seen_google_ids, stats, events_result, request, result,
                 last, nrecords, nuserops, response, updates>>

\* sync_job / trigger_sync open a session and call sync_calendar
SyncBegin ==
  /\ pc = "idle" /\ credentials /\ nsyncs < MaxSyncs
  /\ now' = now + 1
  /\ nsyncs' = nsyncs + 1
  /\ session' = FreshSession(db)
  /\ EnterFrame(tokens)
  /\ pc' = "list"
  /\ depth' = 0
  /\ last' = NoStep
  /\ UNCHANGED <<db, tokens, last_sync, credentials, result, nrecords, nuserops, response, updates>>

\* the loop turn with every cancelled record counted as a deletion
ProcessRecordCountingAll(m, google_event, full, clock) ==
  IF m.raised # None THEN m
  ELSE IF m.session.flush_fails
    THEN [m EXCEPT !.raised = "IntegrityError"]
  ELSE IF google_event.status = "cancelled" THEN
    LET r == _handle_deleted_event(m.session, google_event.id)
    IN  [m EXCEPT !.session = r.session,
                  !.stats = [@ EXCEPT !.deleted = @ + 1],
                  !.last = [op |-> "cancelled", google_event |-> google_event,
                            before |-> Rows(m.session)]]
  ELSE IF google_event.start.key = "none" \/ google_event.end.key = "none"
    THEN [m EXCEPT !.raised = "TypeError"]
  ELSE
    LET r == _upsert_event(m.session, google_event, clock)
    IN  [m EXCEPT !.session = r.session,
                  !.seen = IF full THEN @ \cup {google_event.id} ELSE @,
                  !.stats = IF r.created THEN [@ EXCEPT !.created = @ + 1]
                            ELSE [@ EXCEPT !.updated = @ + 1],
                  !.last = [op |-> "upsert", google_event |-> google_event,
                            before |-> Rows(m.session)]]

\* one turn of the loop over the items of a page; m is the merge so far
ProcessRecord(m, google_event, full, clock) ==
  IF m.raised # None THEN m
  ELSE IF m.session.flush_fails
    \* the first statement of either branch flushes the session and the
    \* store refuses a pending statement
    THEN [m EXCEPT !.raised = "IntegrityError"]
  ELSE IF google_event.status = "cancelled" THEN
    LET r == _handle_deleted_event(m.session, google_event.id)
    IN  [m EXCEPT !.session = r.session,
                  !.stats = IF r.deleted THEN [@ EXCEPT !.deleted = @ + 1] ELSE @,
                  !.last = [op |-> "cancelled", google_event |-> google_event,
                            before |-> Rows(m.session)]]
  ELSE IF google_event.start.key = "none" \/ google_event.end.key = "none"
    THEN [m EXCEPT !.raised = "TypeError"]
  ELSE
    LET r == _upsert_event(m.session, google_event, clock)
    IN  [m EXCEPT !.session = r.session,
                  !.seen = IF full THEN @ \cup {google_event.id} ELSE @,
                  !.stats = IF r.created THEN [@ EXCEPT !.created = @ + 1]
                            ELSE [@ EXCEPT !.updated = @ + 1],
                  !.last = [op |-> "upsert", google_event |-> google_event,
                            before |-> Rows(m.session)]]

RECURSIVE ProcessItems(_, _, _, _)
ProcessItems(m, items, full, clock) ==
  IF items = <<>> THEN m
  ELSE ProcessItems(ProcessRecord(m, Head(items), full, clock), Tail(items), full, clock)

\* the parameters of events().list: the stored token, or the window of a
\* full sync, on the first request of an attempt; the page token after that
ListRequest ==
  IF pc = "list"
  THEN IF sync_token # None
       THEN [kind |-> "syncToken", syncToken |-> sync_token]
       ELSE [kind |-> "window", timeMin |-> now - WindowBackHours,
             timeMax |-> now + WindowAheadHours]
  ELSE [kind |-> "pageToken"]

Merged(page) ==
  ProcessItems([session |-> session, stats |-> stats, seen |-> seen_google_ids,
                last |-> last, raised |-> None],
               page.items, is_full_sync, now)

AwaitingList == pc = "list" \/ (pc = "paged" /\ events_result.nextPageToken)

\* the gateway delivers at most MaxRecords records in a run, and an empty
\* page only as the first page of an attempt
CanDeliver(page) ==
  /\ Len(page.items) <= MaxRecords - nrecords
  /\ page.items = <<>> => pc = "list"

\* service.events().list(...).execute() returns a page and the loop over its
\* items runs, to the end or until an item raises
ListEvents(page) ==
  /\ AwaitingList /\ CanDeliver(page)
  /\ nrecords' = nrecords + Len(page.items)
  /\ LET m == Merged(page)
     IN  IF m.raised = None
         THEN /\ session' = m.session
              /\ stats' = m.stats
              /\ seen_google_ids' = m.seen
              /\ last' = m.last
              /\ events_result' = page
              /\ request' = ListRequest
              /\ pc' = "paged"
              /\ UNCHANGED <<db, tokens, last_sync, credentials, now, depth,
                             sync_token, is_full_sync, result, nsyncs, nuserops, response, updates>>
         ELSE Raise(m.raised) /\ UNCHANGED tokens

\* the list request raises HttpError with status 410: the token is cleared
\* and sync_calendar calls itself with the same session
ListGone ==
  /\ AwaitingList
  /\ depth < MaxDepth
  /\ tokens' = None
  /\ depth' = depth + 1
  /\ EnterFrame(None)
  /\ pc' = "list"
  /\ last' = NoStep
  /\ UNCHANGED <<db, session, last_sync, credentials, now, result,
                 nsyncs, nrecords, nuserops, response, updates>>

\* the list request, or get_calendar_service, raises anything else
ListRaises ==
  /\ AwaitingList
  /\ \E error \in {"HttpError 500", "ValueError"} : Raise(error)
  /\ UNCHANGED <<tokens, nrecords>>

AtEnd == pc = "paged" /\ ~events_result.nextPageToken

\* a sweep that runs in an incremental cycle as well
SweptInAnyMode == _cleanup_orphaned_events(session, seen_google_ids, now)

\* the session as sync_calendar leaves it before the commit
Swept ==
  IF is_full_sync THEN _cleanup_orphaned_events(session, seen_google_ids, now)
  ELSE [session |-> session, count |-> 0]

\* the token of the last page, or none
NewTokenOrNone == events_result.nextSyncToken

NewToken == IF events_result.nextSyncToken # None
            THEN events_result.nextSyncToken ELSE tokens

\* the query of the orphan sweep flushes the session and the store refuses
FinishSweepRaises ==
  /\ AtEnd
  /\ is_full_sync /\ session.flush_fails
  /\ Raise("IntegrityError")
  /\ UNCHANGED <<tokens, nrecords>>

\* the token is stored, then session.commit() raises
FinishCommitRaises ==
  /\ AtEnd
  /\ ~(is_full_sync /\ session.flush_fails)
  /\ tokens' = NewToken
  /\ LET swept == Swept
     IN  \E error \in IF swept.session.flush_fails THEN {"IntegrityError"}
                      ELSE {"OperationalError"} : Raise(error)
  /\ UNCHANGED nrecords

\* the sweep, the token, the commit and record_sync_success
FinishCommits ==
  /\ AtEnd
  /\ LET swept == Swept
     IN  /\ ~swept.session.flush_fails
         /\ db' = Committed(swept.session)
         /\ result' = [kind |-> "stats",
                       stats |-> [stats EXCEPT !.deleted = @ + swept.count]]
  /\ tokens' = NewToken
  /\ last_sync' = [time |-> now, success |-> TRUE, error |-> None]
  /\ last' = NoStep
  /\ LeaveFrame
  /\ UNCHANGED <<credentials, now, nsyncs, nrecords, nuserops, response, updates>>

\* -------------------------------------------------------------- user edits
\* The routes; each works in a session of its own and commits.  Edits after
\* the last sync of a run lead nowhere and are not explored.
UserStep ==
  /\ pc = "idle" /\ nuserops < MaxUserOps /\ nsyncs < MaxSyncs
  /\ nuserops' = nuserops + 1
  /\ UNCHANGED <<session, tokens, last_sync, credentials, now, pc, depth,
                 sync_token, is_full_sync, seen_google_ids, stats, events_result, request,
                 result, last, nsyncs, nrecords>>

NextKey(store) == FreshSession(store).next_id

\* RedirectResponse(..., status_code=303)
Redirect(handler) == [handler |-> handler, status_code |-> 303]

\* the redirect of an item route, with the event it was called on and whether
\* the request asked for every instance of the series
Edited(handler, event, for_all) ==
  [handler |-> handler, status_code |-> 303, event_id |-> event.id,
   for_all |-> for_all]

\* HTTPException(status_code=400, ...) of the item routes
RejectedEdit(handler, event, for_all) ==
  [handler |-> handler, status_code |-> 400, event_id |-> event.id,
   for_all |-> for_all]

\* create_item with add_to_all off
create_item(event, name) ==
  /\ UserStep
  /\ event \in db.events
  /\ updates' = {}
  /\ IF event.is_archived
       THEN db' = db /\ response' = RejectedEdit("create_item", event, FALSE)
       ELSE /\ db' = [db EXCEPT !.items = @ \cup
                       {[id |-> NextKey(db), event_id |-> event.id, name |-> name,
                         is_checked |-> FALSE, source |-> "manual"]}]
            /\ response' = Edited("create_item", event, FALSE)

\* a toggle that does not look at is_archived
toggle_item_archived_too(item) ==
  /\ UserStep
  /\ item \in db.items
  /\ updates' = {}
  /\ LET event == CHOOSE e \in db.events : e.id = item.event_id
     IN  /\ db' = [db EXCEPT !.items =
                     (@ \ {item}) \cup {[item EXCEPT !.is_checked = ~item.is_checked]}]
         /\ response' = Edited("toggle_item", event, FALSE)

toggle_item(item) ==
  /\ UserStep
  /\ item \in db.items
  /\ updates' = {}
  /\ LET event == CHOOSE e \in db.events : e.id = item.event_id
     IN  IF event.is_archived
         THEN db' = db /\ response' = RejectedEdit("toggle_item", event, FALSE)
         ELSE /\ db' = [db EXCEPT !.items =
                          (@ \ {item}) \cup {[item EXCEPT !.is_checked = ~item.is_checked]}]
              /\ response' = Edited("toggle_item", event, FALSE)

archive_event(event) ==
  /\ UserStep
  /\ event \in db.events
  /\ db' = [db EXCEPT !.events = (@ \ {event}) \cup {[event EXCEPT !.is_archived = TRUE]}]
  /\ response' = Redirect("archive_event") /\ updates' = {}

unarchive_event(event) ==
  /\ UserStep
  /\ event \in db.events
  /\ db' = [db EXCEPT !.events = (@ \ {event}) \cup {[event EXCEPT !.is_archived = FALSE]}]
  /\ response' = Redirect("unarchive_event") /\ updates' = {}

\* HTTPException(status_code=400, ...) of confirm_event
Rejected(event) ==
  [handler |-> "confirm_event", event_id |-> event.id, status_code |-> 400]

Confirmed(event) ==
  [handler |-> "confirm_event", event_id |-> event.id, status_code |-> 303]

\* a confirm that does not look at the items
confirm_event_unchecked(event) ==
  /\ UserStep
  /\ event \in db.events
  /\ IF event.is_archived
       THEN response' = Rejected(event) /\ db' = db /\ updates' = {}
       ELSE /\ db' = [db EXCEPT !.confirmations = @ \cup
                       {[id |-> NextKey(db), event_id |-> event.id,
                         confirmed_at |-> now, confirmed_by |-> 1]}]
            /\ response' = Confirmed(event) /\ updates' = {}

confirm_event(event) ==
  /\ UserStep
  /\ event \in db.events
  /\ IF event.is_archived
       THEN response' = Rejected(event) /\ db' = db /\ updates' = {}
       ELSE LET unchecked == {item \in db.items :
                                item.event_id = event.id /\ ~item.is_checked}
            IN  IF unchecked # {}
                 THEN response' = Rejected(event) /\ db' = db /\ updates' = {}
                 ELSE /\ db' = [db EXCEPT !.confirmations = @ \cup
                                 {[id |-> NextKey(db), event_id |-> event.id,
                                   confirmed_at |-> now, confirmed_by |-> 1]}]
                      /\ response' = Confirmed(event) /\ updates' = {}

\* delete_item with delete_from_all off
delete_item(item) ==
  /\ UserStep
  /\ item \in db.items
  /\ updates' = {}
  /\ LET event == CHOOSE e \in db.events : e.id = item.event_id
     IN  IF event.is_archived
         THEN db' = db /\ response' = RejectedEdit("delete_item", event, FALSE)
         ELSE /\ db' = [db EXCEPT !.items = @ \ {item}]
              /\ response' = Edited("delete_item", event, FALSE)

\* descriptions the remote record may have when push fetches it: none, an
\* "Items:" section alone, a "Checklist:" section followed by notes, and a
\* text with an "Items:" section between empty lines
DescriptionRoom == Text(<<Line("text", "Room 4"), Line("blank", ""),
                          Line("hdr", "Items"), Line("blank", ""),
                          Line("dash", "B"), Line("blank", "")>>)
RemoteDescriptions == {NoDescription, DescriptionA, DescriptionAB, DescriptionRoom}
Answers == {HttpErrorAnswer, ValueErrorAnswer}
             \cup {Fetched(d) : d \in RemoteDescriptions}

\* without a refresh token get_credentials returns None on every call
AnswersFor(creds) == IF creds THEN Answers ELSE {ValueErrorAnswer}

\* the answer of push_items, HTTPException(status_code=500, ...) or the
\* redirect, with the event it was called on and the counts that
\* push_recurring_instances returned
PushAnswered(status_code, event, counts) ==
  [handler |-> "push_items", status_code |-> status_code, event_id |-> event.id,
   stats |-> counts]

\* an exception that no handler catches leaves the route: the session is
\* closed without a commit and the framework answers 500
Unhandled(handler) ==
  [handler |-> handler, status_code |-> 500, exception |-> "ValueError"]

\* push_items
push_items(event, answers) ==
  /\ UserStep
  /\ event \in db.events
  /\ LET r == push_recurring_instances(db, event, answers)
     IN  /\ db' = r.store
         /\ updates' = r.updates
         /\ response' = IF r.raised THEN Unhandled("push_items")
                         ELSE IF r.stats.pushed = 0 /\ r.stats.failed > 0
                              THEN PushAnswered(500, event, r.stats)
                              ELSE PushAnswered(303, event, r.stats)

\* the redirect after a fan-out, with what the fan-out was called on and the
\* counts it returned and logged
FannedOut(handler, event, name, counts) ==
  [handler |-> handler, status_code |-> 303, event_id |-> event.id,
   name |-> name, stats |-> counts]

\* create_item with add_to_all on
create_item_add_to_all(event, name, answer) ==
  /\ UserStep
  /\ event \in db.events
  /\ IF event.is_archived \/ (event.recurring_event_id # None /\ ~credentials)
       THEN db' = db /\ updates' = {} /\ response' = RejectedEdit("create_item", event, TRUE)
       ELSE LET created == [db EXCEPT !.items = @ \cup
                              {[id |-> NextKey(db), event_id |-> event.id, name |-> name,
                                is_checked |-> FALSE, source |-> "manual"]}]
            IN  IF event.recurring_event_id = None
                 THEN db' = created /\ updates' = {} /\ response' = Edited("create_item", event, TRUE)
                 ELSE LET r == push_item_to_recurring_instances(
                                 created, event, name, answer, now)
                      IN  /\ db' = r.store
                          /\ updates' = r.updates
                          /\ response' = IF r.raised THEN Unhandled("create_item")
                                          ELSE FannedOut("create_item", event, name, r.stats)

\* delete_item with delete_from_all on; answer is for the push of the source
\* event, master_answer for the push to the master record
delete_item_from_all(item, answer, master_answer) ==
  /\ UserStep
  /\ item \in db.items
  /\ LET event   == CHOOSE e \in db.events : e.id = item.event_id
         removed == [db EXCEPT !.items = @ \ {item}]
     IN  IF event.is_archived \/ (event.recurring_event_id # None /\ ~credentials)
         THEN db' = db /\ updates' = {} /\ response' = RejectedEdit("delete_item", event, TRUE)
         ELSE IF event.recurring_event_id = None
         THEN db' = removed /\ updates' = {} /\ response' = Edited("delete_item", event, TRUE)
         ELSE IF answer.error = "ValueError"
         THEN db' = db /\ updates' = {} /\ response' = Unhandled("delete_item")
         ELSE
           LET new_desc == push_items_to_calendar(removed, event, answer)
               pushed   == IF answer.ok THEN [event EXCEPT !.description = new_desc]
                           ELSE event
               stored   == [removed EXCEPT !.events = (@ \ {event}) \cup {pushed}]
               sent     == IF answer.ok
                           THEN {[event_id |-> event.id, eventId |-> event.google_event_id,
                                  description |-> new_desc]}
                           ELSE {}
               r == delete_item_from_recurring_instances(
                      stored, pushed, item.name, master_answer, now)
           IN  /\ db' = r.store
               /\ updates' = sent \cup r.updates
               /\ response' = IF r.raised THEN Unhandled("delete_item")
                               ELSE FannedOut("delete_item", event, item.name, r.stats)

Next ==
  \/ SyncNoCredentials
  \/ TriggerSyncNoCredentials
  \/ SyncBegin
  \/ \E page \in Pages(nsyncs) : ListEvents(page)
  \/ ListGone
  \/ ListRaises
  \/ FinishSweepRaises
  \/ FinishCommitRaises
  \/ FinishCommits
  \/ \E event \in db.events, name \in ItemNames : create_item(event, name)
  \/ \E item \in db.items : toggle_item(item)
  \/ \E event \in db.events : archive_event(event)
  \/ \E event \in db.events : unarchive_event(event)
  \/ \E event \in db.events : confirm_event(event)

Spec == Init /\ [][Next]_vars

\* ---------------------------------------------------------------- pushing
\* The requests that edit the items of an event and push them, on the stores
\* a sync has committed: one event, or two instances of a series on two days.
RECURSIVE UpsertAll(_, _)
UpsertAll(s0, google_events) ==
  IF google_events = <<>> THEN s0
  ELSE UpsertAll(_upsert_event(s0, Head(google_events), StartClock).session,
                 Tail(google_events))

\* starts of the instances of a series, with the clock at StartClock: in
\* three days, in two days, tomorrow, at this hour
InThreeDays == [start |-> DateTime(82, 0), end |-> DateTime(83, 0)]
InTwoDays == [start |-> DateTime(58, 0), end |-> DateTime(59, 0)]
Tomorrow  == [start |-> DateTime(34, 0), end |-> DateTime(35, 0)]
ThisHour  == [start |-> DateTime(StartClock, 0), end |-> DateTime(StartClock + 1, 0)]

\* what toggle_item and confirm_event leave of a store when the user checks
\* every item of the event with this remote id and confirms it
CheckedAndConfirmed(store, google_id) ==
  LET event == CHOOSE e \in store.events : e.google_event_id = google_id
  IN  [store EXCEPT
         !.items = {IF i.event_id = event.id THEN [i EXCEPT !.is_checked = TRUE]
                    ELSE i : i \in @},
         !.confirmations = @ \cup
           {[id |-> FreshSession(store).next_id, event_id |-> event.id,
             confirmed_at |-> StartClock, confirmed_by |-> 1]}]

\* a series with an instance in two days, one tomorrow, one that starts at
\* this hour and a confirmed one in three days, and an event of another series
FanStore ==
  CheckedAndConfirmed(
    Committed(UpsertAll(FreshSession(EmptyStore),
      << Record("g1", "s1", ListsA, InTwoDays),
         Record("g3", "s1", ListsA, Tomorrow),
         Record("g4", "s2", ListsA, Tomorrow),
         Record("g5", "s1", ListsA, ThisHour),
         Record("g6", "s1", ListsA, InThreeDays) >>)),
    "g6")

\* names a request may carry
FanNames == {"A", "a", "B"}

\* what archive_event leaves of a store when the user archives the event with
\* this remote id
Archived(store, google_id) ==
  LET event == CHOOSE e \in store.events : e.google_event_id = google_id
  IN  [store EXCEPT !.events = (@ \ {event}) \cup {[event EXCEPT !.is_archived = TRUE]}]

\* an event that was checked, confirmed and then archived
ArchivedStore ==
  Archived(CheckedAndConfirmed(SeedStore(Record("g1", None, ListsA, Morning)), "g1"), "g1")

SeriesStore ==
  Committed(_upsert_event(
    _upsert_event(FreshSession(EmptyStore),
                  Record("g1", "s1", ListsA, Morning), StartClock).session,
    Record("g2", "s1", Bare, Yesterday), StartClock).session)

\* what create_item leaves of a store when the user adds an item of this
\* name to the event with this remote id
WithItem(store, google_id, name) ==
  LET event == CHOOSE e \in store.events : e.google_event_id = google_id
  IN  [store EXCEPT !.items = @ \cup
         {[id |-> NextKey(store), event_id |-> event.id, name |-> name,
           is_checked |-> FALSE, source |-> "manual"]}]

\* a series of which one instance was given an item by the user and then
\* archived, before the item was pushed
ArchivedInstanceStore == Archived(WithItem(SeriesStore, "g2", "B"), "g2")

PushInit ==
  /\ db \in {SeedStore(g) : g \in SeedRecords}
             \cup {SeriesStore, FanStore, ArchivedStore, ArchivedInstanceStore}
  /\ session = NoSession
  /\ tokens = "tok0"
  /\ last_sync = [time |-> 0, success |-> TRUE, error |-> None]
  /\ credentials \in BOOLEAN
  /\ now = StartClock
  /\ pc = "idle"
  /\ depth = 0
  /\ sync_token = None
  /\ is_full_sync = FALSE
  /\ seen_google_ids = {}
  /\ stats = ZeroStats
  /\ events_result = NoResult
  /\ request = NoRequest
  /\ result = [kind |-> "none"]
  /\ last = NoStep
  /\ response = NoResponse
  /\ updates = {}
  /\ nsyncs = 0 /\ nrecords = 0 /\ nuserops = 0

\* the starts and ends the records of the stores above carry
RemoteTimes == {Morning, AllDay, Yesterday, InThreeDays, InTwoDays, Tomorrow, ThisHour}

\* the record the gateway holds for an event after a push: the description
\* that was written, everything else as the last sync found it
PushedRecord(store, event) ==
  LET t == CHOOSE x \in RemoteTimes :
             /\ Stored(_parse_datetime(x.start)) = event.start_time
             /\ Stored(_parse_datetime(x.end)) = event.end_time
  IN  Record(event.google_event_id, event.recurring_event_id,
             [summary |-> event.title, description |-> event.description,
              attendees |-> IF \E a \in store.attendees : a.event_id = event.id
                            THEN <<AttendeeX>> ELSE <<>>],
             t)

\* sync_calendar after a push_items that wrote the description of the event:
\* an incremental cycle whose one page holds the record of that event
sync_after_push(event) ==
  /\ pc = "idle" /\ nsyncs < MaxSyncs
  /\ event \in db.events
  /\ response.handler = "push_items" /\ response.status_code = 303
  /\ \E u \in updates : u.event_id = event.id
  /\ LET google_event == PushedRecord(db, event)
         r == _upsert_event(FreshSession(db), google_event, now)
     IN  /\ db' = Committed(r.session)
         /\ last' = [op |-> "upsert", google_event |-> google_event,
                     before |-> db]
         /\ result' = [kind |-> "stats",
                       stats |-> IF r.created
                                 THEN [ZeroStats EXCEPT !.created = 1]
                                 ELSE [ZeroStats EXCEPT !.updated = 1]]
  /\ last_sync' = [time |-> now, success |-> TRUE, error |-> None]
  /\ nsyncs' = nsyncs + 1
  /\ UNCHANGED <<session, tokens, credentials, now, pc, depth, sync_token,
                 is_full_sync, seen_google_ids, stats, events_result, request,
                 response, updates, nrecords, nuserops>>

PushNext ==
  \/ \E event \in db.events, name \in FanNames : create_item(event, name)
  \/ \E item \in db.items : delete_item(item)
  \/ \E event \in db.events : archive_event(event)
  \/ \E event \in db.events : unarchive_event(event)
  \/ \E event \in db.events : confirm_event(event)
  \/ \E item \in db.items : toggle_item(item)
  \/ \E event \in db.events, name \in FanNames :
       \E answer \in AnswersFor(credentials) :
         create_item_add_to_all(event, name, answer)
  \/ \E item \in db.items :
       \E answer, master_answer \in AnswersFor(credentials) :
         delete_item_from_all(item, answer, master_answer)
  \/ \E event \in db.events :
       \E answers \in [Ids(PushTried(db, event)) -> AnswersFor(credentials)] :
         push_items(event, answers)
  \/ \E event \in db.events : sync_after_push(event)

PushSpec == PushInit /\ [][PushNext]_vars

\* ------------------------------------------------------------------ codec calls
\* The two functions of parser.py called one after the other, as push and the
\* next sync do: a list of names is formatted into a description and the
\* result is parsed.  result holds what the last call was given and returned.
MaxItems == 2

\* the lists of names a caller may pass
ItemLists == SeqsUpTo(ItemNames, MaxItems)

\* a section under another header alone, a numbered section, and notes under
\* a header the parser does not know
DescriptionChecklist == Text(<<Line("hdr", "Checklist"), Line("dash", "B")>>)
DescriptionPack == Text(<<Line("text", "Room 4"), Line("hdr", "Pack"),
                          NumLine("1", "A"), Line("blank", "")>>)
DescriptionNotes == Text(<<Line("text", "Room 4"), Line("blank", ""),
                           Line("cap", "Notes"), Line("dash", "Z")>>)

\* the descriptions format may be given: none, "", plain text, and texts
\* with and without sections
Descriptions ==
  RemoteDescriptions \cup
    {Text(<<>>), Text(<<Line("text", "Room 4")>>), DescriptionChecklist,
     DescriptionPack, DescriptionNotes}

CodecInit ==
  /\ db = EmptyStore
  /\ session = NoSession
  /\ tokens = None
  /\ last_sync = [time |-> 0, success |-> TRUE, error |-> None]
  /\ credentials = TRUE
  /\ now = StartClock
  /\ pc = "idle"
  /\ depth = 0
  /\ sync_token = None
  /\ is_full_sync = FALSE
  /\ seen_google_ids = {}
  /\ stats = ZeroStats
  /\ events_result = NoResult
  /\ request = NoRequest
  /\ result = [kind |-> "none"]
  /\ last = NoStep
  /\ response = NoResponse
  /\ updates = {}
  /\ nsyncs = 0 /\ nrecords = 0 /\ nuserops = 0

CodecUnchanged ==
  UNCHANGED <<db, session, tokens, last_sync, credentials, now, pc, depth,
              sync_token, is_full_sync, seen_google_ids, stats, events_result,
              request, last, response, updates, nsyncs, nrecords, nuserops>>

Format(items, existing_description) ==
  /\ result.kind = "none"
  /\ result' = [kind |-> "description", items |-> items,
                existing_description |-> existing_description,
                description |->
                  format_items_to_description(items, existing_description)]
  /\ CodecUnchanged

Parse ==
  /\ result.kind = "description"
  /\ result' = [kind |-> "names", items |-> result.items,
                existing_description |-> result.existing_description,
                description |-> result.description,
                names |-> parse_items_from_description(result.description)]
  /\ CodecUnchanged

CodecNext ==
  \/ \E items \in ItemLists, existing_description \in Descriptions :
       Format(items, existing_description)
  \/ Parse

CodecSpec == CodecInit /\ [][CodecNext]_vars

\* ------------------------------------------------------- overlapping cycles
\* sync_job runs in a worker thread of the scheduler and trigger_sync on the
\* event loop, both calling sync_calendar on the one SyncState of the process.
\* Here pc, depth, sync_token, is_full_sync and events_result are indexed by
\* the invocation, tokens and last_sync are the shared class attributes, and
\* the store is empty and so are the pages, so that the cycles touch nothing
\* but the token.  last keeps how many tokens the gateway has issued, the
\* tokens that clear_token removed, the newest token set_token stored, and
\* whether the two invocations were ever in sync_calendar at the same time.
Invocations == {"sync_job", "trigger_sync"}

MaxIssued == 3

\* the order in which the gateway issued the tokens; "tok0" is the one a
\* cycle before this run stored
Rank(token) ==
  IF token = "tok0" THEN 0
  ELSE CHOOSE k \in DOMAIN TokenNames : TokenNames[k] = token

InFlight(p) == pc[p] \notin {"idle", "done"}

RaceInit ==
  /\ db = EmptyStore
  /\ session = NoSession
  /\ tokens \in {None, "tok0"}
  /\ last_sync = [time |-> 0, success |-> TRUE, error |-> None]
  /\ credentials = TRUE
  /\ now = StartClock
  /\ pc = [p \in Invocations |-> "idle"]
  /\ depth = [p \in Invocations |-> 0]
  /\ sync_token = [p \in Invocations |-> None]
  /\ is_full_sync = [p \in Invocations |-> FALSE]
  /\ seen_google_ids = {}
  /\ stats = ZeroStats
  /\ events_result = [p \in Invocations |-> NoResult]
  /\ request = NoRequest
  /\ result = [kind |-> "none"]
  /\ last = [op |-> "race", issued |-> 0, cleared |-> {}, newest |-> tokens,
             overlapped |-> FALSE]
  /\ response = NoResponse
  /\ updates = {}
  /\ nsyncs = 0 /\ nrecords = 0 /\ nuserops = 0

RaceUnchanged ==
  UNCHANGED <<db, session, credentials, now, seen_google_ids, stats, request,
              result, response, updates, nrecords, nuserops>>

\* sync_calendar is entered, by the caller or by itself after a 410:
\* has_valid_credentials, SyncState.get_token, is_full_sync
GetToken(p) ==
  /\ pc[p] \in {"idle", "again"}
  /\ pc' = [pc EXCEPT ![p] = "list"]
  /\ sync_token' = [sync_token EXCEPT ![p] = tokens]
  /\ is_full_sync' = [is_full_sync EXCEPT ![p] = (tokens = None)]
  /\ nsyncs' = IF pc[p] = "idle" THEN nsyncs + 1 ELSE nsyncs
  /\ last' = [last EXCEPT !.overlapped =
                 @ \/ \E q \in Invocations \ {p} : InFlight(q)]
  /\ UNCHANGED <<tokens, last_sync, depth, events_result>>
  /\ RaceUnchanged

\* events().list(...).execute() returns the one page of the cycle, empty,
\* with or without a new nextSyncToken
ListReturns(p, issues) ==
  /\ pc[p] = "list"
  /\ issues => last.issued < MaxIssued
  /\ events_result' = [events_result EXCEPT ![p] =
        [items |-> <<>>, nextPageToken |-> FALSE,
         nextSyncToken |-> IF issues THEN TokenNames[last.issued + 1] ELSE None]]
  /\ last' = [last EXCEPT !.issued = IF issues THEN @ + 1 ELSE @]
  /\ pc' = [pc EXCEPT ![p] = "listed"]
  /\ UNCHANGED <<tokens, last_sync, depth, sync_token, is_full_sync, nsyncs>>
  /\ RaceUnchanged

\* the request is answered 410: SyncState.clear_token, then sync_calendar
\* calls itself
ListExpired(p) ==
  /\ pc[p] = "list" /\ depth[p] < MaxDepth
  /\ tokens' = None
  /\ last' = [last EXCEPT !.cleared = IF tokens = None THEN @ ELSE @ \cup {tokens}]
  /\ depth' = [depth EXCEPT ![p] = @ + 1]
  /\ pc' = [pc EXCEPT ![p] = "again"]
  /\ UNCHANGED <<last_sync, sync_token, is_full_sync, events_result, nsyncs>>
  /\ RaceUnchanged

\* the request raises anything else: record_sync_failure, and the exception
\* leaves sync_calendar
ListFails(p) ==
  /\ pc[p] = "list"
  /\ last_sync' = [time |-> now, success |-> FALSE, error |-> "HttpError"]
  /\ pc' = [pc EXCEPT ![p] = "done"]
  /\ UNCHANGED <<tokens, depth, sync_token, is_full_sync, events_result, last, nsyncs>>
  /\ RaceUnchanged

\* a set_token that stores the token the cycle read when it began
SetTokenRead(p) ==
  /\ pc[p] = "listed"
  /\ LET new_token == sync_token[p]
     IN  /\ tokens' = IF new_token # None THEN new_token ELSE tokens
         /\ last' = [last EXCEPT !.newest =
                        IF new_token # None /\ (@ = None \/ Rank(new_token) > Rank(@))
                        THEN new_token ELSE @]
  /\ pc' = [pc EXCEPT ![p] = "stored"]
  /\ UNCHANGED <<last_sync, depth, sync_token, is_full_sync, events_result, nsyncs>>
  /\ RaceUnchanged

\* the loop over the (empty) page and the sweep of the (empty) store, then
\* new_token = events_result.get("nextSyncToken") and SyncState.set_token
SetToken(p) ==
  /\ pc[p] = "listed"
  /\ LET new_token == events_result[p].nextSyncToken
     IN  /\ tokens' = IF new_token # None THEN new_token ELSE tokens
         /\ last' = [last EXCEPT !.newest =
                        IF new_token # None /\ (@ = None \/ Rank(new_token) > Rank(@))
                        THEN new_token ELSE @]
  /\ pc' = [pc EXCEPT ![p] = "stored"]
  /\ UNCHANGED <<last_sync, depth, sync_token, is_full_sync, events_result, nsyncs>>
  /\ RaceUnchanged

\* session.commit() and record_sync_success; the frames return
CommitAndRecord(p) ==
  /\ pc[p] = "stored"
  /\ last_sync' = [time |-> now, success |-> TRUE, error |-> None]
  /\ pc' = [pc EXCEPT ![p] = "done"]
  /\ UNCHANGED <<tokens, depth, sync_token, is_full_sync, events_result, last, nsyncs>>
  /\ RaceUnchanged

RaceNext ==
  \E p \in Invocations :
    \/ GetToken(p)
    \/ \E issues \in BOOLEAN : ListReturns(p, issues)
    \/ ListExpired(p)
    \/ ListFails(p)
    \/ SetToken(p)
    \/ CommitAndRecord(p)

RaceSpec == RaceInit /\ [][RaceNext]_vars

\* ------------------------------------------------------------------ claims
After == Rows(session)

Upserted == last.op = "upsert"

\* the local event a record is about, in a set of rows
Target(rows, google_event) ==
  {e \in rows.events : e.google_event_id = google_event.id}

EventItems(rows, eid)         == {i \in rows.items : i.event_id = eid}
EventAttendees(rows, eid)     == {a \in rows.attendees : a.event_id = eid}
EventConfirmations(rows, eid) == {c \in rows.confirmations : c.event_id = eid}

\* an event as the store keeps it
AsStored(e) == [e EXCEPT !.start_time = Stored(@), !.end_time = Stored(@),
                         !.last_synced = Stored(@)]

Listed(google_event) == SeqToSet(parse_items_from_description(google_event.description))

\* start and end of the record are the instants the event has
SameTimes(e, google_event) ==
  /\ e.start_time.w - e.start_time.off = google_event.start.w - google_event.start.off
  /\ e.end_time.w - e.end_time.off = google_event.end.w - google_event.end.off

\* C1: within one invocation of sync_calendar the 410 fallback is taken at
\* most once; a second 410 is recorded as a failure and raised.
C1_FallbackAtMostOnce == depth <= 1

\* C2: a sync cycle is all-or-nothing on the store: no step of an invocation
\* changes the committed store except the step that ends it with statistics,
\* and that step commits all the rows of the session; an invocation that
\* ends in a failure leaves the committed store as it was.
C2_AllOrNothing ==
  [][ /\ (pc # "idle" /\ ~(pc' = "idle" /\ result'.kind = "stats")) => db' = db
      /\ (pc # "idle" /\ pc' = "idle" /\ result'.kind = "stats")
           => db' = Committed(Swept.session) ]_vars

\* an invocation has ended in a failure while its session held rows that
\* are not the committed ones
C2_Witness ==
  /\ pc = "idle" /\ result.kind = "raised" /\ last.op = "raised"
  /\ Committed(last.before) # db

\* C3: an Upsert that targets an archived event leaves its stored fields,
\* its items and its attendees as they were.
C3_ArchivedUntouched ==
  Upserted =>
    \A e \in Target(last.before, last.google_event) :
      e.is_archived =>
        /\ AsStored(e) \in {AsStored(x) : x \in After.events}
        /\ EventItems(After, e.id) = EventItems(last.before, e.id)
        /\ EventAttendees(After, e.id) = EventAttendees(last.before, e.id)

\* C4: for an archived event an Upsert adds, deletes and renames no item and
\* changes no is_checked flag, whatever the incoming description and times.
C4_ArchivedItemsFrozen ==
  Upserted =>
    \A e \in Target(last.before, last.google_event) :
      e.is_archived => EventItems(After, e.id) = EventItems(last.before, e.id)

\* an Upsert has met an archived event with a checked item, with another
\* item list in its description
C4_Witness ==
  /\ Upserted
  /\ \E e \in Target(last.before, last.google_event) :
       /\ e.is_archived
       /\ \E i \in EventItems(last.before, e.id) : i.is_checked
       /\ Listed(last.google_event) # {i.name : i \in EventItems(last.before, e.id)}

\* every archived event of rows a is in rows b, with its items and its
\* confirmations
ArchivedKept(a, b) ==
  \A e \in a.events :
    e.is_archived =>
      /\ \E x \in b.events : x.id = e.id /\ x.is_archived
      /\ EventItems(b, e.id) = EventItems(a, e.id)
      /\ EventConfirmations(b, e.id) = EventConfirmations(a, e.id)

\* C5: no step of a sync cycle deletes an archived event, its items or its
\* confirmations: not a cancelled record, not the same-day cleanup inside an
\* Upsert, not the orphan sweep before the commit.
C5_ArchivedNeverDeleted ==
  /\ last.op \in {"upsert", "cancelled"} => ArchivedKept(last.before, After)
  /\ AtEnd => ArchivedKept(After, Rows(Swept.session))

\* a cancelled record has named an archived event that has a confirmation
C5_Witness ==
  /\ last.op = "cancelled"
  /\ \E e \in Target(last.before, last.google_event) :
       e.is_archived /\ EventConfirmations(last.before, e.id) # {}

\* the rows after a sync cycle that starts on the store and merges one record
CycleOf(store, google_event) ==
  Committed(_upsert_event(FreshSession(store), google_event, now).session)

Mergeable == {g \in Records : g.status # "cancelled" /\ g.start.key # "none"}

\* C6: applying Upsert(r) twice in succession yields the items, in name,
\* number and is_checked, that applying it once yields.
C6_UpsertIdempotentOnItems ==
  pc = "idle" =>
    \A g \in Mergeable :
      LET once  == CycleOf(db, g)
          twice == CycleOf(once, g)
      IN  \A e \in Target(once, g) :
            EventItems(twice, e.id) = EventItems(once, e.id)

\* C7: for an existing event that is not archived, an Upsert whose start or
\* end differs from the stored value leaves every item of the event
\* unchecked.
C7_ResetOnReschedule ==
  Upserted =>
    \A e \in Target(last.before, last.google_event) :
      (~e.is_archived /\ ~SameTimes(e, last.google_event))
        => \A i \in EventItems(After, e.id) : ~i.is_checked

\* an Upsert has moved an event that had a checked item and still has items
C7_Witness ==
  /\ Upserted
  /\ \E e \in Target(last.before, last.google_event) :
       /\ ~e.is_archived /\ ~SameTimes(e, last.google_event)
       /\ \E i \in EventItems(last.before, e.id) : i.is_checked
       /\ EventItems(After, e.id) # {}

\* C8: for an existing event that is not archived, an Upsert whose start and
\* end are the stored ones keeps, for every item whose name is still listed,
\* the item and its is_checked value.
C8_ProgressPreserved ==
  Upserted =>
    \A e \in Target(last.before, last.google_event) :
      (~e.is_archived /\ SameTimes(e, last.google_event))
        => \A i \in EventItems(last.before, e.id) :
             i.name \in Listed(last.google_event) => i \in EventItems(After, e.id)

\* C9: after _sync_items on an event that is not archived the item names are
\* the listed names, each listed name that was not there is one unchecked
\* parsed item, and has_unpushed_changes is false.
C9_SetDifference ==
  pc = "idle" =>
    \A g \in Mergeable :
      LET after == CycleOf(db, g)
      IN  \A e \in Target(after, g) :
            ~e.is_archived =>
              /\ {i.name : i \in EventItems(after, e.id)} = Listed(g)
              /\ \A n \in Listed(g) :
                   (\A i \in EventItems(db, e.id) : i.name # n)
                     => \E i \in EventItems(after, e.id) :
                          /\ i.name = n /\ ~i.is_checked /\ i.source = "parsed"
                          /\ \A j \in EventItems(after, e.id) : j.name = n => j = i
              /\ ~has_unpushed_changes(after, e)

ManualKept(a, b, google_event) ==
  \A i \in a.items :
    (/\ i.source = "manual"
     /\ \E e \in b.events :
          /\ e.id = i.event_id
          /\ \/ e.is_archived
             \/ e.google_event_id # google_event.id
             \/ google_event.status = "cancelled"
             \/ i.name \in Listed(google_event))
      => \E j \in b.items : j.id = i.id /\ j.name = i.name /\ j.source = "manual"

FullSyncCommits ==
  pc = "paged" /\ is_full_sync /\ pc' = "idle" /\ result'.kind = "stats"

\* the events the sweep of a full sync is to delete: not archived, ending
\* two hours before now or later, starting before now plus thirty days, and
\* not among the ids the pages returned
SweepOrphans ==
  {e \in session.events :
     /\ ~e.is_archived
     /\ e.end_time.w >= now - 2
     /\ e.start_time.w < now + 30 * 24
     /\ e.google_event_id \notin seen_google_ids}

DayOf(t) == t.w \div 24

\* the events that a record of a series replaces: of the same series, with
\* another remote id, not archived, starting on the day the record starts
Siblings(rows, google_event) ==
  IF google_event.recurringEventId = None THEN {}
  ELSE {e \in rows.events :
          /\ e.recurring_event_id = google_event.recurringEventId
          /\ e.google_event_id # google_event.id
          /\ ~e.is_archived
          /\ DayOf(e.start_time) = DayOf(google_event.start)}

\* rows of events that are gone
ChildrenOf(rows, ids) ==
  {i \in rows.items : i.event_id \in ids}
    \cup {a \in rows.attendees : a.event_id \in ids}
    \cup {c \in rows.confirmations : c.event_id \in ids}

\* C12: an Upsert of a record of a series deletes, on the creation path and
\* on the update path, the events of that series that are not archived, have
\* another remote id and start on the calendar day of the record, with their
\* items, attendees and confirmations, and deletes no other event; the event
\* of the record is there afterwards.
C12_SameDayCleanup ==
  Upserted =>
    LET gone == Siblings(last.before, last.google_event)
    IN  /\ Ids(After.events) \ Ids(Target(After, last.google_event))
             = Ids(last.before.events)
                 \ (Ids(gone) \cup Ids(Target(last.before, last.google_event)))
        /\ Target(After, last.google_event) # {}
        /\ ChildrenOf(After, Ids(gone)) = {}

\* C13: without credentials a sync_calendar call or a /sync/now request
\* makes no gateway call, starts no cycle and changes neither the store nor
\* the stored token; it records the failure 'No valid credentials', and
\* sync_calendar returns the error with zero statistics and does not raise.
C13_NoCredentials ==
  [][ (~credentials /\ nsyncs' # nsyncs) =>
        /\ db' = db /\ tokens' = tokens
        /\ pc' = "idle" /\ session' = NoSession
        /\ events_result' = events_result /\ nrecords' = nrecords
        /\ ~last_sync'.success /\ last_sync'.error = "No valid credentials"
        /\ \/ result' = result
           \/ result' = [kind |-> "error", error |-> "No valid credentials",
                         stats |-> [created |-> 0, updated |-> 0, deleted |-> 0]]
    ]_vars

\* sync_calendar has returned the error while a token is stored
C13_Witness ==
  /\ ~credentials /\ pc = "idle" /\ result.kind = "error"
  /\ tokens # None /\ ~last_sync.success

\* C14: the status tracker shows the outcome of the latest sync_calendar
\* invocation: success with no error text if and only if the invocation
\* committed and returned statistics, failure with the text of the error if
\* and only if it returned the credentials error or raised; the error that
\* is raised is the one recorded.
C14_StatusTracksOutcome ==
  /\ result.kind = "stats" => last_sync.success /\ last_sync.error = None
  /\ result.kind \in {"raised", "error"}
       => ~last_sync.success /\ last_sync.error = result.error
  /\ last_sync.success => result.kind \in {"stats", "none"}
  /\ ~last_sync.success
       => \/ result.kind \in {"raised", "error"}
          \/ ~credentials /\ last_sync.error = "No valid credentials"

\* an invocation has raised the error of the gateway and the tracker shows it
C14_Witness ==
  /\ pc = "idle" /\ result.kind = "raised" /\ result.error = "HttpError 500"
  /\ ~last_sync.success /\ last_sync.error = "HttpError 500"
  /\ last_sync.time = now

\* a step that ends an invocation with statistics
Commits == pc = "paged" /\ pc' = "idle" /\ result'.kind = "stats"

\* C15: a cycle that succeeds stores the nextSyncToken of the last page it
\* fetched if that page carries one and otherwise leaves the stored token as
\* it was when the attempt began; it never clears the token, and fetching a
\* page, whatever token the page carries, stores nothing.
C15_TokenPersistence ==
  [][ /\ Commits =>
           /\ events_result.nextSyncToken # None
                => tokens' = events_result.nextSyncToken
           /\ events_result.nextSyncToken = None => tokens' = tokens
           /\ tokens # None => tokens' # None
      /\ (pc # "idle" /\ pc' # "idle" /\ depth' = depth) => tokens' = tokens
    ]_vars

\* a cycle of more than one page has committed and the stored token is the
\* one its last page carried
C15_Witness ==
  /\ pc = "idle" /\ result.kind = "stats" /\ nrecords >= 1
  /\ tokens = TokenNames[1]

\* the remote ids of the records of a page that are not cancelled
Returned(page) ==
  {page.items[k].id : k \in {j \in DOMAIN page.items :
                                page.items[j].status # "cancelled"}}

\* C16: an attempt asks for the incremental delta, with the stored token, if
\* and only if a token is stored when it starts; otherwise it asks for the
\* window of a full sync, puts the id of every returned record that is not
\* cancelled into the seen-id set and runs the orphan sweep before it
\* commits, which an incremental attempt does not; the attempt that follows
\* a 410 starts with the token cleared and is a full sync.
C16_ModeSelection ==
  [][ /\ (pc = "list" /\ pc' = "paged") =>
           /\ tokens # None
                => request' = [kind |-> "syncToken", syncToken |-> tokens]
           /\ tokens = None
                => /\ request'.kind = "window"
                   /\ request'.timeMin = now - 2
                   /\ request'.timeMax = now + 30 * 24
      /\ (pc # "idle" /\ pc' = "paged" /\ tokens = None)
           => Returned(events_result') \subseteq seen_google_ids'
      /\ (Commits /\ tokens = None)
           => Ids(db'.events) = Ids(session.events) \ Ids(SweepOrphans)
      /\ (Commits /\ tokens # None) => db' = Committed(session)
      /\ (pc # "idle" /\ depth' = depth + 1)
           => tokens' = None /\ pc' = "list" /\ is_full_sync'
    ]_vars

\* the attempt that follows a 410 has asked for the window and has seen a
\* record
C16_Witness ==
  /\ pc = "paged" /\ depth = 1 /\ tokens = None
  /\ request.kind = "window" /\ seen_google_ids # {}

\* a page of one cancelled record has been merged
CancelledStep ==
  /\ pc # "idle" /\ pc' = "paged"
  /\ Len(events_result'.items) = 1
  /\ events_result'.items[1].status = "cancelled"

\* C17: a cancelled record deletes the event of its remote id that is not
\* archived, with all its items, attendees and confirmations, and adds one
\* to 'deleted'; if there is no such event the rows and the statistics stay
\* as they are; in both cases nothing is created or updated and the seen-id
\* set is not changed.
C17_CancelledRecords ==
  [][ CancelledStep =>
        LET google_id == events_result'.items[1].id
            found == {e \in session.events :
                        e.google_event_id = google_id /\ ~e.is_archived}
            gone  == Ids(found)
        IN  /\ found # {} =>
                 /\ session'.events = session.events \ found
                 /\ session'.items = {i \in session.items : i.event_id \notin gone}
                 /\ session'.attendees =
                      {a \in session.attendees : a.event_id \notin gone}
                 /\ session'.confirmations =
                      {c \in session.confirmations : c.event_id \notin gone}
                 /\ stats' = [stats EXCEPT !.deleted = @ + 1]
            /\ found = {} => Rows(session') = Rows(session) /\ stats' = stats
            /\ seen_google_ids' = seen_google_ids
    ]_vars

\* the event a confirm request names, and whether confirm_event may accept it
Named == CHOOSE e \in db.events : e.id = response'.event_id
Confirmable(e) ==
  /\ ~e.is_archived
  /\ \A i \in db.items : i.event_id = e.id => i.is_checked
ConfirmStep == nuserops' # nuserops /\ response'.handler = "confirm_event"

\* C18: a confirmation appears in the store only in a confirm request that
\* names an event which is not archived and has every item checked, and it is
\* one record for that event; a confirm request for an archived event or for
\* an event with an unchecked item is answered 400 and leaves the store as it
\* is; the session of a sync holds no confirmation the store does not hold.
C18_ConfirmationOnlyByConfirm ==
  [][ /\ db'.confirmations \ db.confirmations # {} =>
           /\ ConfirmStep /\ response'.status_code = 303
           /\ Confirmable(Named)
           /\ \E c \in db'.confirmations \ db.confirmations :
                /\ c.event_id = Named.id
                /\ db' = [db EXCEPT !.confirmations = @ \cup {c}]
      /\ (ConfirmStep /\ ~Confirmable(Named)) =>
           response'.status_code = 400 /\ db' = db
      /\ pc' # "idle" => session'.confirmations \subseteq db'.confirmations
    ]_vars

\* an event with an item has been confirmed
C18_Witness ==
  /\ response.handler = "confirm_event" /\ response.status_code = 303
  /\ \E c \in db.confirmations : \E i \in db.items :
       c.event_id = response.event_id /\ i.event_id = c.event_id /\ i.is_checked

\* a step of a sync cycle, as opposed to a request of the user
SyncStep == nuserops' = nuserops

\* the confirmations of before that are missing in after went with their
\* event, which was not archived; no other confirmation is new or changed
WentWithEvent(before, after) ==
  /\ after.confirmations \subseteq before.confirmations
  /\ \A c \in before.confirmations \ after.confirmations :
       /\ c.event_id \notin Ids(after.events)
       /\ \E e \in before.events : e.id = c.event_id /\ ~e.is_archived

\* C19, as the claim states it: no step of a sync cycle removes or changes a
\* confirmation, in the session or in the store.
C19_ConfirmationsAppendOnly ==
  [][ SyncStep =>
        /\ db.confirmations \subseteq db'.confirmations
        /\ (pc # "idle" /\ pc' # "idle") =>
              session.confirmations \subseteq session'.confirmations
    ]_vars

\* C19, as the code has it: a sync cycle adds and changes no confirmation,
\* and removes one only together with its event, which is not archived (a
\* cancelled record, the orphan sweep or the same-day cleanup deleted it);
\* the confirmations of the events that stay, and of archived events, stay.
C19_ConfirmationsGoWithEvent ==
  [][ SyncStep =>
        /\ WentWithEvent(db, db')
        /\ (pc # "idle" /\ pc' # "idle") => WentWithEvent(session, session')
    ]_vars

\* a sync has committed the deletion of a confirmed event and its confirmation
C19_Witness ==
  /\ pc = "idle" /\ result.kind = "stats"
  /\ response.handler = "confirm_event" /\ response.status_code = 303
  /\ response.event_id \notin Ids(db.events)
  /\ \A c \in db.confirmations : c.event_id # response.event_id

\* a push request has been answered
PushStep == nuserops' # nuserops /\ response'.handler = "push_items"

\* C20: after a push request, every event for which the remote accepted an
\* update has the description that was written as its stored description,
\* has no unpushed changes, and the items of the store are as before,
\* whatever description the remote record had.
C20_PushClearsSignal ==
  [][ (PushStep /\ response'.status_code = 303) =>
        /\ db'.items = db.items
        /\ \A u \in updates' :
             \E e \in db'.events :
               /\ e.id = u.event_id
               /\ e.description = u.description
               /\ ~has_unpushed_changes(db', e)
    ]_vars

\* a request that pushes to the remote has been answered
RemoteStep ==
  /\ nuserops' # nuserops
  /\ response'.handler \in {"push_items", "create_item", "delete_item"}

\* the events no update was sent for are in the store as they were
UnpushedKept ==
  \A e \in db.events :
    e.id \notin {u.event_id : u \in updates'} => e \in db'.events

\* C21: no request ends in an exception that left push_items_to_calendar or
\* push_items_to_master_event, and after a push request every event whose
\* push failed has the description it had, and the items are as they were.
C21_PushFailureIsAValue ==
  [][ /\ RemoteStep =>
           response' \notin {Unhandled("push_items"), Unhandled("create_item"),
                             Unhandled("delete_item")}
      /\ PushStep => (db'.items = db.items /\ UnpushedKept)
    ]_vars

\* a request has been answered after a fan-out that returned
FanStep ==
  /\ nuserops' # nuserops
  /\ response'.handler \in {"create_item", "delete_item"}
  /\ "stats" \in DOMAIN response'

ItemsOf(store, e) == {i \in store.items : i.event_id = e.id}
Source == CHOOSE e \in db.events : e.id = response'.event_id

\* what C22 lists: the event is the source, is archived, has a confirmation,
\* does not start after now, or is of another series
ExemptFrom(source_event, e) ==
  \/ e.id = source_event.id
  \/ e.is_archived
  \/ \E c \in db.confirmations : c.event_id = e.id
  \/ e.start_time.w <= now
  \/ e.recurring_event_id # source_event.recurring_event_id
Exempt(e) == ExemptFrom(Source, e)

Eligible == {e \in db.events : ~Exempt(e)}
Matches(store, e, name) == {i \in ItemsOf(store, e) : Lower(i.name) = Lower(name)}

\* C23: after a fan-out that adds, every eligible instance has an item of
\* that name without regard to case; an instance that had one has the items
\* it had and is counted as skipped, every other one has exactly one more
\* item, unchecked and 'parsed', and is counted as added; added + skipped is
\* the number of eligible instances.
C23_FanOutAdd ==
  [][ (FanStep /\ response'.handler = "create_item") =>
        LET name == response'.name
            had  == {e \in Eligible : Matches(db, e, name) # {}}
        IN  /\ \A e \in Eligible : Matches(db', e, name) # {}
            /\ \A e \in had : ItemsOf(db', e) = ItemsOf(db, e)
            /\ \A e \in Eligible \ had :
                 \E i \in ItemsOf(db', e) :
                   /\ i \notin db.items /\ i.name = name
                   /\ ~i.is_checked /\ i.source = "parsed"
                   /\ ItemsOf(db', e) = ItemsOf(db, e) \cup {i}
            /\ response'.stats.skipped = Cardinality(had)
            /\ response'.stats.changed = Cardinality(Eligible \ had)
            /\ response'.stats.changed + response'.stats.skipped = Cardinality(Eligible)
    ]_vars

\* a fan-out has added the item to one instance and skipped another
C23_Witness ==
  /\ response.handler = "create_item" /\ "stats" \in DOMAIN response
  /\ response.stats.changed >= 1 /\ response.stats.skipped >= 1

DeleteFanStep == FanStep /\ response'.handler = "delete_item"

\* C24, as the claim states it: after a fan-out that deletes, no eligible
\* instance has an item of that name without regard to case; an instance
\* that had none is as it was and is counted as skipped; deleted + skipped
\* is the number of eligible instances.
C24_FanOutDeleteAll ==
  [][ DeleteFanStep =>
        LET name == response'.name
            had  == {e \in Eligible : Matches(db, e, name) # {}}
        IN  /\ \A e \in Eligible : Matches(db', e, name) = {}
            /\ \A e \in Eligible \ had : ItemsOf(db', e) = ItemsOf(db, e)
            /\ response'.stats.skipped = Cardinality(Eligible \ had)
            /\ response'.stats.changed + response'.stats.skipped = Cardinality(Eligible)
    ]_vars

\* C24, as the code has it: every eligible instance that had an item of that
\* name without regard to case loses exactly one of them, the first of its
\* items, and is counted as deleted, so an instance that had exactly one has
\* none afterwards; an instance that had none is as it was and is counted as
\* skipped; deleted + skipped is the number of eligible instances.
C24_FanOutDeleteFirst ==
  [][ DeleteFanStep =>
        LET name == response'.name
            had  == {e \in Eligible : Matches(db, e, name) # {}}
        IN  /\ \A e \in had :
                 \E i \in Matches(db, e, name) :
                   /\ \A j \in Matches(db, e, name) : i.id <= j.id
                   /\ ItemsOf(db', e) = ItemsOf(db, e) \ {i}
            /\ \A e \in had :
                 Cardinality(Matches(db, e, name)) = 1 => Matches(db', e, name) = {}
            /\ \A e \in Eligible \ had : ItemsOf(db', e) = ItemsOf(db, e)
            /\ response'.stats.changed = Cardinality(had)
            /\ response'.stats.skipped = Cardinality(Eligible \ had)
            /\ response'.stats.changed + response'.stats.skipped = Cardinality(Eligible)
    ]_vars

\* a fan-out has deleted the item from one instance and skipped another
C24_Witness ==
  /\ response.handler = "delete_item" /\ "stats" \in DOMAIN response
  /\ response.stats.changed >= 1 /\ response.stats.skipped >= 1

\* a create_item request with add_to_all on an event of a series has got as
\* far as the fan-out: the item of the request is in the store
AddFanOutCalled ==
  /\ nuserops' # nuserops
  /\ response'.handler = "create_item"
  /\ ("stats" \in DOMAIN response' \/ response' = Unhandled("create_item"))
Created == CHOOSE i \in db'.items \ db.items : i.source = "manual"
CreatedOn == CHOOSE e \in db.events : e.id = Created.event_id
MasterPushed == \E u \in updates' : u.event_id = 0

\* C25: whether or not the push to the master record succeeds, a fan-out that
\* adds returns, has given the item to every eligible instance that had none
\* of that name, and reports in master_pushed whether the master record was
\* updated; the same holds for the counts of a fan-out that deletes; called
\* on an event without a series id either fan-out returns zero counts and
\* master_pushed = false, sends nothing and leaves the store as it is.
C25_MasterPushBestEffort ==
  [][ /\ AddFanOutCalled =>
           /\ \A e \in db.events :
                (~ExemptFrom(CreatedOn, e)) => Matches(db', e, Created.name) # {}
           /\ "stats" \in DOMAIN response'
           /\ response'.stats.master_pushed = MasterPushed
      /\ DeleteFanStep => response'.stats.master_pushed = MasterPushed
      /\ \A e \in db.events : \A name \in FanNames : \A answer \in Answers :
           e.recurring_event_id = None =>
             /\ push_item_to_recurring_instances(db, e, name, answer, now) = NoFanOut(db)
             /\ delete_item_from_recurring_instances(db, e, name, answer, now)
                  = NoFanOut(db)
    ]_vars

\* a push request has been answered after push_recurring_instances returned
PushReturned == PushStep /\ "stats" \in DOMAIN response'
Sent(e) == \E u \in updates' : u.event_id = e.id

\* C26: when push_recurring_instances returns, pushed + skipped + failed is
\* one more than the number of other events of the series that are not
\* archived; the events without unpushed changes are the skipped ones, no
\* update is sent for them and they stay as they are; the pushed ones are
\* those an update was sent for and they have its description; the failed
\* ones are the rest and they stay as they are.
C26_PushClassification ==
  [][ PushReturned =>
        LET others  == {e \in db.events :
                          /\ Source.recurring_event_id # None
                          /\ e.recurring_event_id = Source.recurring_event_id
                          /\ e.id # Source.id /\ ~e.is_archived}
            quiet   == {e \in {Source} \cup others : ~has_unpushed_changes(db, e)}
            pushed  == {e \in {Source} \cup others : Sent(e)}
            failed  == ({Source} \cup others) \ (quiet \cup pushed)
            counts  == response'.stats
        IN  /\ counts.pushed + counts.skipped + counts.failed = 1 + Cardinality(others)
            /\ counts.skipped = Cardinality(quiet)
            /\ counts.pushed = Cardinality(pushed) /\ pushed \cap quiet = {}
            /\ counts.failed = Cardinality(failed)
            /\ \A e \in quiet \cup failed : e \in db'.events
            /\ \A u \in updates' :
                 \E e \in pushed :
                   /\ e.id = u.event_id
                   /\ [e EXCEPT !.description = u.description] \in db'.events
            /\ Cardinality(updates') = Cardinality(pushed)
    ]_vars

\* a push has updated one event of a series and skipped another
C26_Witness ==
  /\ response.handler = "push_items" /\ "stats" \in DOMAIN response
  /\ response.stats.pushed >= 1 /\ response.stats.skipped >= 1

\* C27: creating, toggling or deleting an item and confirming the checklist
\* are rejected with status 400 on an archived event and leave items, checked
\* flags and confirmations as they were; on an event that is not archived
\* (one that was unarchived among them) the same requests succeed: the item
\* is there, flipped or gone, and a checklist with every item checked gets
\* its confirmation.
EditStep ==
  /\ nuserops' # nuserops
  /\ response'.handler \in {"create_item", "toggle_item", "delete_item", "confirm_event"}
  /\ "event_id" \in DOMAIN response'
  /\ "stats" \notin DOMAIN response'

EditedEvent == CHOOSE e \in db.events : e.id = response'.event_id

PlainEdit == response'.handler = "confirm_event" \/ ~response'.for_all

EditDone ==
  LET e      == EditedEvent
      before == {i \in db.items : i.event_id = e.id}
      after  == {i \in db'.items : i.event_id = e.id}
  IN  /\ response'.status_code = 303
      /\ db'.events = db.events
      /\ response'.handler = "create_item" =>
            /\ before \subseteq after /\ Cardinality(after \ before) = 1
            /\ \A i \in after \ before : ~i.is_checked /\ i.source = "manual"
            /\ db'.confirmations = db.confirmations
      /\ response'.handler = "toggle_item" =>
            /\ Cardinality(after \ before) = 1 /\ Cardinality(before \ after) = 1
            /\ \A i \in before \ after : [i EXCEPT !.is_checked = ~@] \in after
            /\ db'.confirmations = db.confirmations
      /\ response'.handler = "delete_item" =>
            /\ after \subseteq before /\ Cardinality(before \ after) = 1
            /\ db'.confirmations = db.confirmations
      /\ response'.handler = "confirm_event" =>
            /\ db'.items = db.items
            /\ db.confirmations \subseteq db'.confirmations
            /\ \E c \in db'.confirmations \ db.confirmations : c.event_id = e.id

\* a request the claim says succeeds: on an event that is not archived,
\* for this event alone, and for confirm with every item checked
EditAllowed ==
  LET e == EditedEvent
  IN  /\ ~e.is_archived
      /\ PlainEdit
      /\ (response'.handler = "confirm_event") =>
            (\A i \in db.items : i.event_id = e.id => i.is_checked)

C27_ArchivedRejectsEdits ==
  [][ EditStep =>
        /\ EditedEvent.is_archived => (response'.status_code = 400 /\ db' = db)
        /\ EditAllowed => EditDone ]_vars

\* the event that started archived, with its item checked and one
\* confirmation, was unarchived and confirmed again
C27_Witness ==
  /\ response.handler = "confirm_event" /\ response.status_code = 303
  /\ \E e \in db.events :
       /\ e.id = response.event_id /\ ~e.is_archived /\ e.google_event_id = "g1"
       /\ \E i \in db.items : i.event_id = e.id /\ i.is_checked
       /\ Cardinality({c \in db.confirmations : c.event_id = e.id}) = 2

\* C28: for any list of names L and any description D with no "Items:"
\* section, the names parsed from format_items_to_description(L, D) are, as
\* a set, the names of L.
HasItemsSection(description) ==
  \E i \in 1..Len(description.lines) : ItemsHeader(description.lines, i)

RoundTripped ==
  /\ result.kind = "names"
  /\ ~HasItemsSection(result.existing_description)

C28_RoundTrip ==
  RoundTripped => SeqToSet(result.names) = SeqToSet(result.items)

\* C29: in every state that sync cycles reach, full or incremental and with
\* record ids repeated, no two local events have the same remote id, in the
\* store and among the rows the session of a running cycle holds, so that no
\* insert of a cycle meets an existing remote id.
UniqueRemoteIds(events) ==
  \A a, b \in events : a.google_event_id = b.google_event_id => a = b

C29_RemoteIdUnique ==
  UniqueRemoteIds(db.events) /\ UniqueRemoteIds(session.events)

\* a cycle on an empty store created an event and then met its id again
C29_Witness ==
  /\ db.events = {}
  /\ Upserted /\ stats.created >= 1 /\ stats.updated >= 1
  /\ last.google_event.id \in {e.google_event_id : e \in last.before.events}
  /\ Cardinality(session.events) = 1

\* C30: nothing keeps two invocations of sync_calendar apart, and when they
\* overlap the cursor can be corrupted: a token older than one already stored
\* is stored over it.  Cycles that do not overlap never do this: each token
\* they store is the newest the gateway has issued and none that clear_token
\* removed.
TokenStored(p) ==
  /\ pc[p] = "listed" /\ pc'[p] = "stored"
  /\ events_result[p].nextSyncToken # None

C30_SerialCyclesKeepCursor ==
  [][ \A p \in Invocations :
        (TokenStored(p) /\ ~last.overlapped) =>
          /\ tokens' = TokenNames[last.issued]
          /\ tokens' \notin last.cleared
          /\ last'.newest = tokens' ]_vars

\* both invocations have returned, they overlapped, and the token that is
\* left is older than one that was stored before it
C30_Witness ==
  /\ \A p \in Invocations : pc[p] = "done"
  /\ last.overlapped
  /\ tokens # None /\ last.newest # None
  /\ Rank(tokens) < Rank(last.newest)

\* C31: after a successful full sync in which each remote id appears at most
\* once, every record that was returned and is not cancelled has a local
\* event with its remote id in the committed store, also when two records
\* are instances of one series on the same day.
\* no id was met twice: every record that was not cancelled added an id to
\* the seen ids, and no cancelled record met an event
IdsMetOnce ==
  /\ stats.created + stats.updated = Cardinality(seen_google_ids)
  /\ stats.deleted = 0

C31_FullSyncMirrors ==
  [][ (FullSyncCommits /\ IdsMetOnce) =>
        \A google_id \in seen_google_ids :
          \E e \in db'.events : e.google_event_id = google_id ]_vars

\* C32: the stored token is replaced by a new one only by a cycle that
\* commits; an attempt that fails at any step, the commit included, leaves
\* the token as it was when the attempt began.
AttemptFails == pc # "idle" /\ pc' = "idle" /\ result'.kind = "raised"

C32_CursorNotAhead ==
  [][ /\ (tokens' # tokens /\ tokens' # None) => Commits
      /\ AttemptFails => tokens' = sync_token ]_vars

\* C33: after a push of an event that is not archived has succeeded, the
\* Upsert of the record with the pushed description and the same times
\* leaves the names and the checked flags of the event's items as they were,
\* whatever the remote description was before the push.
PullAfterPush == nsyncs' # nsyncs /\ last'.op = "upsert"

Pulled == CHOOSE e \in db.events : e.google_event_id = last'.google_event.id

NamesAndFlags(store, eid) ==
  {<<i.name, i.is_checked>> : i \in {j \in store.items : j.event_id = eid}}

C33_PushThenPullKeepsItems ==
  [][ (PullAfterPush /\ ~Pulled.is_archived) =>
        NamesAndFlags(db', Pulled.id) = NamesAndFlags(db, Pulled.id) ]_vars

\* C34: every item, attendee and confirmation row references an existing
\* event, in the committed store and among the rows of a running cycle: when
\* sync deletes an event, its children go with it in the same transaction,
\* those added earlier in the same cycle included.
References(rows) ==
  \A child \in rows.items \cup rows.attendees \cup rows.confirmations :
    \E e \in rows.events : e.id = child.event_id

C34_DeletionCascades == References(db) /\ References(Rows(session))

\* C35: in an attempt that began with a stored token the orphan sweep does
\* not run, and the merge of a page leaves every event completely as it was
\* (fields, items, checked flags, attendees, confirmations) unless a record
\* of the page carries its remote id or is an instance of its series that
\* starts on the same day under another id.
IncrementalPage == pc # "idle" /\ pc' = "paged" /\ ~is_full_sync

PageRecords == {events_result'.items[k] : k \in DOMAIN events_result'.items}

NamedBy(e, r) == r.id = e.google_event_id

SiblingOf(e, r) ==
  /\ r.status # "cancelled"
  /\ r.recurringEventId # None /\ r.recurringEventId = e.recurring_event_id
  /\ r.id # e.google_event_id
  /\ DayStart(_parse_datetime(r.start)) = DayStart(e.start_time)

RowsOf(rows, eid) ==
  [items         |-> {i \in rows.items : i.event_id = eid},
   attendees     |-> {a \in rows.attendees : a.event_id = eid},
   confirmations |-> {c \in rows.confirmations : c.event_id = eid}]

C35_IncrementalTouchesDelta ==
  [][ /\ IncrementalPage =>
           \A e \in session.events :
             (\A r \in PageRecords : ~NamedBy(e, r) /\ ~SiblingOf(e, r)) =>
               /\ e \in session'.events
               /\ RowsOf(session', e.id) = RowsOf(session, e.id)
      /\ (Commits /\ ~is_full_sync) => db' = Committed(session) ]_vars

\* an incremental cycle has created the event of a record, and an event
\* with items that the record does not name is in the session as the store
\* has it
C35_Witness ==
  /\ pc = "paged" /\ ~is_full_sync /\ Upserted /\ stats.created = 1
  /\ \E e \in db.events \cap session.events :
       /\ e.google_event_id # last.google_event.id
       /\ RowsOf(Rows(session), e.id) = RowsOf(db, e.id)
       /\ RowsOf(db, e.id).items # {}

\* C36: no step of a sync cycle changes the is_archived flag of an event or
\* the source of an item that survives the step, and the only change a step
\* makes to is_checked is from true to false.
LocalKept(a, b) ==
  /\ \A e \in a.events, f \in b.events :
       e.id = f.id => f.is_archived = e.is_archived
  /\ \A i \in a.items, j \in b.items :
       i.id = j.id => /\ j.source = i.source
                      /\ j.is_checked => i.is_checked

C36_LocalStateKept ==
  [][ /\ (pc = "idle" /\ pc' # "idle") => LocalKept(db, Rows(session'))
      /\ (pc # "idle" /\ pc' # "idle") => LocalKept(Rows(session), Rows(session'))
      /\ (pc # "idle" /\ pc' = "idle") => LocalKept(db, db')
      /\ Commits => LocalKept(Rows(session), db') ]_vars

\* an Upsert has unchecked a checked item that the user added, and the item
\* is still a manual one
C36_Witness ==
  /\ Upserted
  /\ \E i \in last.before.items, j \in session.items :
       /\ i.id = j.id /\ i.is_checked /\ ~j.is_checked
       /\ i.source = "manual" /\ j.source = "manual"


\* a page has been merged into the session of a running cycle
PageMerged == pc # "idle" /\ pc' = "paged"

\* what the records of a page add to the statistics, each record looked at
\* with the rows the session holds when its turn comes (m is the merge so
\* far): a record that is not cancelled counts as created when no event with
\* its remote id is among them and as updated otherwise; a cancelled record
\* counts as deleted when an event with its remote id that is not archived
\* is among them
RECURSIVE PageCounts(_, _)
PageCounts(m, items) ==
  IF items = <<>> THEN ZeroStats
  ELSE LET r       == Head(items)
           known   == \E e \in m.session.events : e.google_event_id = r.id
           matched == \E e \in m.session.events :
                        e.google_event_id = r.id /\ ~e.is_archived
           rest    == PageCounts(ProcessRecord(m, r, is_full_sync, now), Tail(items))
       IN  IF r.status = "cancelled"
           THEN [rest EXCEPT !.deleted = @ + IF matched THEN 1 ELSE 0]
           ELSE [rest EXCEPT !.created = @ + IF known THEN 0 ELSE 1,
                             !.updated = @ + IF known THEN 1 ELSE 0]

\* the counts of the page that has been merged
Counted ==
  PageCounts([session |-> session, stats |-> stats, seen |-> seen_google_ids,
              last |-> last, raised |-> None],
             events_result'.items)

\* C37: the statistics of an attempt start at zero, also when the attempt
\* is the full sync entered after a 410; every page adds one to created or
\* updated for each record that is not cancelled (created exactly when no
\* event with the remote id existed) and one to deleted for each cancelled
\* record that matched an event that is not archived, so the events the
\* same-day cleanup removes are not counted; the cycle that succeeds
\* returns these counts with, on a full sync only, the number of events the
\* orphan sweep removed added to deleted.
C37_StatisticsAccounting ==
  [][ /\ pc' = "list" => stats' = ZeroStats
      /\ PageMerged =>
           stats' = [created |-> stats.created + Counted.created,
                     updated |-> stats.updated + Counted.updated,
                     deleted |-> stats.deleted + Counted.deleted]
      /\ Commits =>
           result'.stats =
             [stats EXCEPT !.deleted =
                @ + IF is_full_sync THEN Cardinality(SweepOrphans) ELSE 0] ]_vars

\* an Upsert has created an event and its same-day cleanup has removed
\* another, and nothing is counted as deleted
C37_Witness ==
  /\ Upserted /\ pc = "paged"
  /\ stats.created >= 1 /\ stats.deleted = 0
  /\ \E e \in last.before.events : e.id \notin Ids(session.events)


\* the stored description of the event is what it was
DescriptionKept(e) ==
  \E f \in db'.events : f.id = e.id /\ f.description = e.description

\* C38: a push request sends no update for an archived event and leaves the
\* stored description of every archived event as it was, whether the
\* archived event is another instance of the series or the event the push
\* was requested on.
C38_PushRespectsArchival ==
  [][ PushStep =>
        \A e \in db.events :
          e.is_archived => ~Sent(e) /\ DescriptionKept(e) ]_vars


\* the attendee row _sync_attendees writes for an attendee of a record
RowFor(att) ==
  [email |-> att.email, display_name |-> att.displayName,
   response_status |-> IF att.responseStatus = None THEN "needsAction"
                       ELSE att.responseStatus]

\* an attendee row without its key and its event
AsListed(a) ==
  [email |-> a.email, display_name |-> a.display_name,
   response_status |-> a.response_status]

\* C39: after the Upsert of a record the attendee rows of its event are one
\* row per attendee of the record, with the email, the display name and the
\* response status of the record ("needsAction" when it gives none); none of
\* them is a row that was there before the Upsert, and there are no more
\* rows than attendees, also when the same record is merged again.
C39_AttendeesReplaced ==
  Upserted =>
    \A e \in Target(After, last.google_event) :
      LET rows == EventAttendees(After, e.id)
          atts == last.google_event.attendees
      IN  /\ Cardinality(rows) = Len(atts)
          /\ {AsListed(a) : a \in rows} = {RowFor(atts[k]) : k \in 1..Len(atts)}
          /\ \A a \in rows : a.id \notin Ids(last.before.attendees)

====
